---- MODULE Spec2Model ----
(***************************************************************************)
(* Comment-thread anchoring and synchronisation engine of the workshop     *)
(* editor: the Tiptap editor component (marks in content), the comment     *)
(* store (threads in localStorage), the comment panel's refresh, and the   *)
(* debounced save streams (content, thread cleanup, title, brain goal).    *)
(*                                                                         *)
(* Time is counted in milliseconds.  Every setTimeout / setInterval is a   *)
(* record with the milliseconds that remain before it is due; a timer      *)
(* that is due runs before time advances further.                          *)
(***************************************************************************)
EXTENDS Integers, Sequences, FiniteSets, TLC

----------------------------------------------------------------------------
(* Bounds of the model *)

MaxDocLen == 2      \* characters in the content tree
MaxThreads == 2     \* thread ids generateId hands out
MaxCount == 2       \* saturation of the bookkeeping counters
MaxActs == 5        \* operations of the user in one run
MaxIds == 4         \* values generateId hands out to the store's interface
MaxNow == 1         \* ticks of Date.now() the store's interface sees
MaxCalls == 4       \* calls of the store's interface in one run
MaxTreeLen == 3     \* characters in a content tree given to the position resolver
MaxSegments == 2    \* segments (prose, fenced block, JSON text) of a provider reply

Chars == {"a", "b"}
Titles == {"t1", "t2"}
Goals == {"g1", "g2"}
Docs == {"A", "B"}
Contents == {"c", "d"}
Snapshots == {<<"a">>, <<"a", "b">>}

----------------------------------------------------------------------------
(* Program constants *)

SaveDelay == 600
CleanupDelay == 800
TitleDelay == 500
GoalDelay == 600
RefreshInterval == 500
RefreshDelay == 50

\* a text node without comment mark / with a comment mark whose commentId
\* attribute is empty (the attribute's default)
NoMark == -1
EmptyId == 0
\* the id on a mark that came with pasted content and that no stored
\* thread ever had
ForeignId == MaxThreads + 1
\* a commentId that names a member of Object.prototype ("constructor",
\* "toString", "__proto__", ...), as pasted or loaded content can carry
ProtoId == MaxThreads + 2
\* Infinity, the position of a thread without entry
Infinity == -1

\* every delay of the program is a multiple of the shortest one
Granule == RefreshDelay
Horizon == CleanupDelay + Granule

Min(S) == CHOOSE x \in S : \A y \in S : x <= y
Sat(n) == IF n >= MaxCount THEN MaxCount ELSE n + 1

VARIABLES
  documentId,          \* prop documentId of Editor / CommentPanel / DocPage
  doc,                 \* editor.state.doc: sequence of [ch, mark]
  editorMounted,       \* the page (Editor, CommentPanel, BrainPanel) is mounted
  isInitialized,       \* isInitializedRef.current
  initTimer,           \* the setTimeout(..., 0) of the load effect is pending
  threads,             \* localStorage "playground:comments"
  nextId,              \* next value of generateId
  documents,           \* content of each document record in "playground:documents"
  storedTitle,         \* title of the document record
  brains,              \* localStorage "playground:brains": project id -> brain
  saveTimers, saveTimeoutRef,
  cleanupTimers, cleanupTimeoutRef,
  titleTimers, titleTimeoutRef,
  goalTimers, brainSaveTimeoutRef,
  isCommentPanelOpen,  \* DocPage state
  pendingComment,      \* DocPage state: text of the selection, <<>> for null
  intervalTimer,       \* remaining ms of the panel's setInterval, -1 when none
  refreshTimers,       \* remaining ms of the setTimeout(refreshCommentData, 50)
  brain,               \* BrainPanel state
  sinceChange,         \* ms since the last content change the editor handled
  change,              \* bookkeeping of the last handled content change
  removal,             \* per thread id: orphan removals and notifications
  acts,                \* operations of the user so far
  now,                 \* Date.now() as the store reads it
  commentData,         \* CommentPanel state: result of getAllCommentData
  panelThreads,        \* CommentPanel state: threads
  commentCount,        \* DocPage state: commentCount
  peerDoc,             \* content of the editor of another surface on the document
  request,             \* body of the request POST /api/ai received
  credential,          \* process.env.ANTHROPIC_API_KEY is set
  phase,               \* how far POST has come with the request
  response,            \* the NextResponse POST returned
  providerCalls,       \* calls of anthropic.messages.create so far
  provider,            \* the promise anthropic.messages.create returned
  timeoutTimer,        \* the setTimeout(..., AI_TIMEOUT_MS) of timeoutPromise
  elapsed,             \* ms since that timer was set
  method,              \* HTTP method of the request
  editor,              \* the Tiptap editor handed to buildContextPack
  opts,                \* the options handed to buildContextPack
  contextPack,         \* what buildContextPack returned
  call                 \* the store module called last

editorVars == <<doc, isInitialized, initTimer>>
editorTimerVars == <<saveTimers, saveTimeoutRef, cleanupTimers, cleanupTimeoutRef>>
titleVars == <<titleTimers, titleTimeoutRef, storedTitle>>
brainVars == <<goalTimers, brainSaveTimeoutRef, brains, brain>>
panelVars == <<isCommentPanelOpen, pendingComment, intervalTimer, refreshTimers>>
storeVars == <<threads, nextId, removal>>
\* the store's clock and interface and the panel's view state, which the
\* editing-session specifications do not read
routeVars == <<request, credential, phase, response, providerCalls, provider,
               timeoutTimer, elapsed, method>>
extractVars == <<editor, opts, contextPack>>
clientVars == <<extractVars, call>>
apiVars == <<now, commentData, panelThreads, commentCount, peerDoc, routeVars, clientVars>>
vars == <<documentId, doc, editorMounted, isInitialized, initTimer, threads,
          nextId, documents, storedTitle, brains, saveTimers,
          saveTimeoutRef, cleanupTimers, cleanupTimeoutRef, titleTimers,
          titleTimeoutRef, goalTimers, brainSaveTimeoutRef,
          isCommentPanelOpen, pendingComment, intervalTimer, refreshTimers,
          brain, sinceChange, change, removal, acts, now, commentData,
          panelThreads, commentCount, peerDoc, request, credential, phase, response, providerCalls,
          provider, timeoutTimer, elapsed, method, editor, opts, contextPack, call>>

\* the content of the open document's record
storedContent == documents[documentId]

\* updateDocument(id, {content}): no write when no record has the id
UpdateDocument(stored, id, content) ==
  IF id \in DOMAIN stored THEN [stored EXCEPT ![id] = content] ELSE stored

----------------------------------------------------------------------------
(* Content tree *)

Cell(c, m) == [ch |-> c, mark |-> m]

\* mark.type.name === "comment" && mark.attrs.commentId
CarriesId(cell) == cell.mark # NoMark /\ cell.mark # EmptyId

\* the ids carried by at least one mark (activeCommentIds, keys of getAllCommentData)
ActiveCommentIds(d) == {d[i].mark : i \in {j \in DOMAIN d : CarriesId(d[j])}}

InsertAt(d, pos, cell) == SubSeq(d, 1, pos - 1) \o <<cell>> \o SubSeq(d, pos, Len(d))
RemoveAt(d, pos) == SubSeq(d, 1, pos - 1) \o SubSeq(d, pos + 1, Len(d))
TextOf(d, from, to) == [i \in 1..(to - from) |-> d[from + i - 1].ch]

\* commands.setMark("comment", {commentId}) on the selection [from, to)
SetMark(d, from, to, id) ==
  [i \in DOMAIN d |-> IF from <= i /\ i < to THEN Cell(d[i].ch, id) ELSE d[i]]

----------------------------------------------------------------------------
(* Position resolver *)

\* the text nodes of the content in document order: maximal runs of
\* characters with the same marks; pos is the offset doc.descendants passes
\* (the paragraph opens at 0, its first character is at 1)
RECURSIVE TextNodes(_, _)
TextNodes(d, from) ==
  IF from > Len(d) THEN <<>>
  ELSE LET to == Min({j \in from..Len(d) : j = Len(d) \/ d[j + 1].mark # d[from].mark})
       IN <<[text |-> [i \in 1..(to - from + 1) |-> d[from + i - 1].ch],
             mark |-> d[from].mark, pos |-> from]>>
            \o TextNodes(d, to + 1)

\* data[id] read from an object literal: its own entries and the members it
\* inherits from Object.prototype are truthy
Truthy(data, id) == id \in DOMAIN data \/ id = ProtoId

\* the body of the doc.descendants callback on one text node
Visit(data, node) ==
  IF node.mark = NoMark \/ node.mark = EmptyId THEN data
  ELSE IF ~ Truthy(data, node.mark)
    THEN data @@ (node.mark :> [text |-> node.text, position |-> node.pos])
  ELSE IF node.mark \in DOMAIN data
    THEN [data EXCEPT ![node.mark].text = @ \o node.text]
  ELSE data   \* the text is appended to the inherited member, data has no entry

RECURSIVE VisitAll(_, _)
VisitAll(data, nodes) ==
  IF nodes = <<>> THEN data
  ELSE VisitAll(Visit(data, Head(nodes)), Tail(nodes))

\* getAllCommentData
GetAllCommentData(d) ==
  VisitAll([id \in {} |-> [text |-> <<>>, position |-> 0]], TextNodes(d, 1))

\* variant of the lookup that takes 0 for a thread without entry
PositionOrZero(data, id) == IF id \in DOMAIN data THEN data[id].position ELSE 0

\* commentData[id]?.position ?? Infinity
PositionOf(data, id) == IF id \in DOMAIN data THEN data[id].position ELSE Infinity

\* the comparator posA - posB as Array.prototype.sort reads it: negative,
\* positive, or 0 (Infinity - Infinity is NaN, which the sort takes as +0)
ComparePositions(posA, posB) ==
  IF posA = Infinity /\ posB = Infinity THEN 0
  ELSE IF posA = Infinity THEN 1
  ELSE IF posB = Infinity THEN -1
  ELSE posA - posB

\* Array.prototype.sort is stable: t goes after the elements that do not
\* compare greater than it
InsertByPosition(sorted, t, data) ==
  LET before == {i \in DOMAIN sorted :
                   ComparePositions(PositionOf(data, sorted[i].id),
                                    PositionOf(data, t.id)) <= 0}
      k == Cardinality(before)
  IN SubSeq(sorted, 1, k) \o <<t>> \o SubSeq(sorted, k + 1, Len(sorted))

\* sortedThreads
RECURSIVE SortedThreads(_, _)
SortedThreads(ths, data) ==
  IF ths = <<>> THEN <<>>
  ELSE InsertByPosition(SortedThreads(SubSeq(ths, 1, Len(ths) - 1), data),
                        ths[Len(ths)], data)

----------------------------------------------------------------------------
(* Comment store *)

\* a CommentMessage; status is "none" when the field is absent
Message(id, content, author, at, status) ==
  [id |-> id, content |-> content, author |-> author, createdAt |-> at,
   updatedAt |-> at, status |-> status]

\* a record of the old comment format: it has content and no messages
OldComment(id, docId, content, at) ==
  [id |-> id, documentId |-> docId, content |-> content, createdAt |-> at]

\* item.messages && Array.isArray(item.messages)
IsThread(item) == "messages" \in DOMAIN item

\* migrateThread; msgId is the value generateId returns, at is Date.now()
MigrateThread(item, msgId, at) ==
  IF IsThread(item) THEN item
  ELSE LET created == IF "createdAt" \in DOMAIN item THEN item.createdAt ELSE at
           updated == IF "updatedAt" \in DOMAIN item THEN item.updatedAt ELSE at
       IN [id |-> item.id, documentId |-> item.documentId,
           highlightedText |-> IF "highlightedText" \in DOMAIN item
                                 THEN item.highlightedText ELSE <<>>,
           messages |-> IF item.content # ""
                          THEN <<[id |-> msgId, content |-> item.content,
                                  author |-> "user", createdAt |-> created,
                                  updatedAt |-> updated, status |-> "none"]>>
                        ELSE <<>>,
           resolved |-> FALSE, createdAt |-> created, updatedAt |-> updated,
           isAIThread |-> FALSE]

\* readFromStorage: the stored items, each migrated, and the number of
\* values of generateId the migration drew from firstId on
RECURSIVE ReadFromStorage(_, _, _)
ReadFromStorage(stored, firstId, at) ==
  IF stored = <<>> THEN [threads |-> <<>>, ids |-> 0]
  ELSE LET drew == IF ~ IsThread(stored[1]) /\ stored[1].content # "" THEN 1 ELSE 0
           rest == ReadFromStorage(Tail(stored), firstId + drew, at)
       IN [threads |-> <<MigrateThread(stored[1], firstId, at)>> \o rest.threads,
           ids |-> drew + rest.ids]

ThreadIds(ths) == {ths[i].id : i \in DOMAIN ths}

\* Array.prototype.sort((a, b) => a.createdAt - b.createdAt): stable
InsertByCreatedAt(sorted, t) ==
  LET before == {i \in DOMAIN sorted : sorted[i].createdAt <= t.createdAt}
      k == Cardinality(before)
  IN SubSeq(sorted, 1, k) \o <<t>> \o SubSeq(sorted, k + 1, Len(sorted))

RECURSIVE SortByCreatedAt(_)
SortByCreatedAt(ths) ==
  IF ths = <<>> THEN <<>>
  ELSE InsertByCreatedAt(SortByCreatedAt(SubSeq(ths, 1, Len(ths) - 1)), ths[Len(ths)])

GetDocumentComments(ths, docId) ==
  SortByCreatedAt(SelectSeq(ths, LAMBDA t : t.documentId = docId))

DeleteComment(ths, id) == SelectSeq(ths, LAMBDA t : t.id # id)

RECURSIVE DeleteAll(_, _)
DeleteAll(ths, ids) ==
  IF ids = {} THEN ths
  ELSE LET id == Min(ids) IN DeleteAll(DeleteComment(ths, id), ids \ {id})

\* variant of createComment that stores the thread without its root message
CreateCommentNoMessage(ths, id, msgId, docId, content, highlightedText, at) ==
  Append(ths, [id |-> id, documentId |-> docId, highlightedText |-> highlightedText,
               messages |-> <<>>,
               resolved |-> FALSE, createdAt |-> at, updatedAt |-> at,
               isAIThread |-> FALSE])

\* createComment; id and msgId are the two values generateId returns
CreateComment(ths, id, msgId, docId, content, highlightedText, at) ==
  Append(ths, [id |-> id, documentId |-> docId, highlightedText |-> highlightedText,
               messages |-> <<Message(msgId, content, "user", at, "none")>>,
               resolved |-> FALSE, createdAt |-> at, updatedAt |-> at,
               isAIThread |-> FALSE])

CreateAIThread(ths, id, docId, highlightedText, at) ==
  Append(ths, [id |-> id, documentId |-> docId, highlightedText |-> highlightedText,
               messages |-> <<>>, resolved |-> FALSE, createdAt |-> at,
               updatedAt |-> at, isAIThread |-> TRUE])

\* threads.findIndex((t) => t.id === threadId); 0 for -1
FindIndex(ths, threadId) ==
  IF \E i \in DOMAIN ths : ths[i].id = threadId
    THEN Min({i \in DOMAIN ths : ths[i].id = threadId})
    ELSE 0

\* variant of the push that puts the new message first
UnshiftMessage(ths, index, newMessage, at) ==
  [ths EXCEPT ![index].messages = <<newMessage>> \o @, ![index].updatedAt = at]

\* threads[index].messages.push(newMessage); threads[index].updatedAt = now
PushMessage(ths, index, newMessage, at) ==
  [ths EXCEPT ![index].messages = Append(@, newMessage), ![index].updatedAt = at]

AddReplyToThread(ths, threadId, msgId, content, at) ==
  LET index == FindIndex(ths, threadId)
  IN IF index = 0 THEN ths
     ELSE PushMessage(ths, index, Message(msgId, content, "user", at, "none"), at)

AddUserPromptToAIThread(ths, threadId, msgId, prompt, at) ==
  LET index == FindIndex(ths, threadId)
  IN IF index = 0 THEN ths
     ELSE PushMessage(ths, index, Message(msgId, prompt, "user", at, "none"), at)

AddAIMessageToThread(ths, threadId, msgId, content, status, at) ==
  LET index == FindIndex(ths, threadId)
  IN IF index = 0 THEN ths
     ELSE PushMessage(ths, index, Message(msgId, content, "ai", at, status), at)

UpdateMessage(ths, threadId, messageId, content, at) ==
  LET threadIndex == FindIndex(ths, threadId)
      messageIndex == IF threadIndex = 0 THEN 0
                      ELSE FindIndex(ths[threadIndex].messages, messageId)
  IN IF threadIndex = 0 \/ messageIndex = 0 THEN ths
     ELSE [ths EXCEPT ![threadIndex].messages[messageIndex].content = content,
                      ![threadIndex].messages[messageIndex].updatedAt = at,
                      ![threadIndex].updatedAt = at]

UpdateAIMessage(ths, threadId, messageId, content, status, at) ==
  LET threadIndex == FindIndex(ths, threadId)
      messageIndex == IF threadIndex = 0 THEN 0
                      ELSE FindIndex(ths[threadIndex].messages, messageId)
  IN IF threadIndex = 0 \/ messageIndex = 0 THEN ths
     ELSE [ths EXCEPT ![threadIndex].messages[messageIndex].content = content,
                      ![threadIndex].messages[messageIndex].status = status,
                      ![threadIndex].messages[messageIndex].updatedAt = at,
                      ![threadIndex].updatedAt = at]

\* variant of deleteMessage that keeps a thread it has left without messages
DeleteMessageKeepThread(ths, threadId, messageId, at) ==
  LET threadIndex == FindIndex(ths, threadId)
  IN IF threadIndex = 0 THEN ths
     ELSE [ths EXCEPT ![threadIndex].messages =
                        SelectSeq(@, LAMBDA m : m.id # messageId),
                      ![threadIndex].updatedAt = at]

\* deleteMessage: a thread left without messages is spliced out
DeleteMessage(ths, threadId, messageId, at) ==
  LET threadIndex == FindIndex(ths, threadId)
  IN IF threadIndex = 0 THEN ths
     ELSE LET newMessages == SelectSeq(ths[threadIndex].messages,
                                       LAMBDA m : m.id # messageId)
          IN IF Len(newMessages) = 0
               THEN SubSeq(ths, 1, threadIndex - 1)
                      \o SubSeq(ths, threadIndex + 1, Len(ths))
               ELSE [ths EXCEPT ![threadIndex].messages = newMessages,
                                ![threadIndex].updatedAt = at]

ToggleResolveThread(ths, threadId, at) ==
  LET index == FindIndex(ths, threadId)
  IN IF index = 0 THEN ths
     ELSE [ths EXCEPT ![index].resolved = ~ @, ![index].updatedAt = at]

\* deleteDocumentComments
DeleteDocumentComments(ths, docId) == SelectSeq(ths, LAMBDA t : t.documentId # docId)

\* updateAIThreadMode
UpdateAIThreadMode(ths, threadId, mode, at) ==
  LET index == FindIndex(ths, threadId)
  IN IF index = 0 THEN ths
     ELSE [ths EXCEPT ![index] = [("aiMode" :> mode) @@ @ EXCEPT !.updatedAt = at]]

----------------------------------------------------------------------------
(* Timers *)

Timer(id, delay, payload) == [id |-> id, remaining |-> delay, payload |-> payload]

\* clearTimeout(ref): a ref that is null (0) or names a timer that has run
\* cancels nothing
ClearTimeout(timers, ref) == {t \in timers : t.id # ref}

\* the handle setTimeout returns: one no pending timer of the stream has
FreshTimerId(timers) ==
  Min({n \in 1..(Cardinality(timers) + 1) : \A t \in timers : t.id # n})

Elapse(timers, d) == {[t EXCEPT !.remaining = @ - d] : t \in timers}
Due(timers) == {t \in timers : t.remaining = 0}

----------------------------------------------------------------------------
(* Editor: the reconciliation passes and the update handler *)

\* the refs and the content the editor's callbacks work on
Ed == [doc |-> doc, saveTimers |-> saveTimers, saveRef |-> saveTimeoutRef,
       cleanupTimers |-> cleanupTimers, cleanupRef |-> cleanupTimeoutRef]

SetEd(e) ==
  /\ doc' = e.doc
  /\ saveTimers' = e.saveTimers
  /\ saveTimeoutRef' = e.saveRef
  /\ cleanupTimers' = e.cleanupTimers
  /\ cleanupTimeoutRef' = e.cleanupRef

\* variant of the mark cleanup that stops at the first mark it removes
StripFirstOrphanedMark(d, validCommentIds) ==
  LET orphaned == {i \in DOMAIN d : CarriesId(d[i]) /\ d[i].mark \notin validCommentIds}
  IN IF orphaned = {} THEN d
     ELSE [d EXCEPT ![Min(orphaned)] = Cell(d[Min(orphaned)].ch, NoMark)]

\* the marks cleanupOrphanedMarks removes: every mark carrying an id that is
\* not the id of a stored thread of the document
StripOrphanedMarks(d, validCommentIds) ==
  [i \in DOMAIN d |->
     IF CarriesId(d[i]) /\ d[i].mark \notin validCommentIds
       THEN Cell(d[i].ch, NoMark)
       ELSE d[i]]

\* variant of saveContent that schedules without clearing the pending timers
SaveContentNoClear(e, content, docId) ==
  LET sid == FreshTimerId(e.saveTimers)
      cid == FreshTimerId(e.cleanupTimers)
  IN [e EXCEPT
        !.saveTimers = @ \cup {Timer(sid, SaveDelay, [content |-> content, docId |-> docId])},
        !.saveRef = sid,
        !.cleanupTimers = @ \cup {Timer(cid, CleanupDelay, [docId |-> docId])},
        !.cleanupRef = cid]

\* saveContent: both debounced streams of the editor
SaveContent(e, content, docId) ==
  LET s1 == ClearTimeout(e.saveTimers, e.saveRef)
      sid == FreshTimerId(s1)
      c1 == ClearTimeout(e.cleanupTimers, e.cleanupRef)
      cid == FreshTimerId(c1)
  IN [e EXCEPT
        !.saveTimers = s1 \cup {Timer(sid, SaveDelay, [content |-> content, docId |-> docId])},
        !.saveRef = sid,
        !.cleanupTimers = c1 \cup {Timer(cid, CleanupDelay, [docId |-> docId])},
        !.cleanupRef = cid]

\* variant of handleUpdate without mark cleanup (the update handler of
\* src/src/components/editor/Editor.tsx)
HandleUpdateNoCleanup(e, ths) ==
  IF isInitialized THEN SaveContent(e, e.doc, documentId) ELSE e

RECURSIVE HandleUpdate(_, _)

\* cleanupOrphanedMarks of the closure over docId; the transaction it
\* dispatches raises the editor's update event, which runs handleUpdate
CleanupOrphanedMarks(e, ths, docId) ==
  LET validCommentIds == ThreadIds(GetDocumentComments(ths, docId))
      cleaned == StripOrphanedMarks(e.doc, validCommentIds)
      hasChanges == cleaned # e.doc
  IN IF hasChanges THEN HandleUpdate([e EXCEPT !.doc = cleaned], ths) ELSE e

\* variant of handleUpdate that serializes the content before the mark cleanup
HandleUpdateSerializeFirst(e, ths) ==
  IF isInitialized
    THEN LET content == e.doc
             e1 == CleanupOrphanedMarks(e, ths, documentId)
         IN SaveContent(e1, content, documentId)
    ELSE e

\* variant of the thread cleanup that takes the marked threads for the orphans
OrphanedCommentsMarked(d, ths, docId) ==
  LET activeCommentIds == ActiveCommentIds(d)
      storedComments == GetDocumentComments(ths, docId)
  IN {storedComments[i].id : i \in
        {j \in DOMAIN storedComments :
           /\ ~ storedComments[j].isAIThread
           /\ storedComments[j].id \in activeCommentIds}}

\* handleUpdate on the content e.doc a transaction has produced
HandleUpdate(e, ths) ==
  IF isInitialized
    THEN LET e1 == CleanupOrphanedMarks(e, ths, documentId)
         IN SaveContent(e1, e1.doc, documentId)
    ELSE e

\* the stored threads cleanupOrphanedComments deletes
OrphanedComments(d, ths, docId) ==
  LET activeCommentIds == ActiveCommentIds(d)
      storedComments == GetDocumentComments(ths, docId)
  IN {storedComments[i].id : i \in
        {j \in DOMAIN storedComments :
           /\ ~ storedComments[j].isAIThread
           /\ storedComments[j].id \notin activeCommentIds}}

\* the stored threads the panel's refreshCommentData deletes
OrphanedThreads(d, ths, docId) ==
  LET data == ActiveCommentIds(d)
      storedThreads == GetDocumentComments(ths, docId)
  IN {storedThreads[i].id : i \in
        {j \in DOMAIN storedThreads : storedThreads[j].id \notin data}}

\* cleanupOrphanedComments of the closure over docId: the thread cleanup,
\* then the mark cleanup
CleanupOrphanedComments(e, ths, docId) ==
  LET deleted == OrphanedComments(e.doc, ths, docId)
      kept == DeleteAll(ths, deleted)
  IN [ed |-> CleanupOrphanedMarks(e, kept, docId), threads |-> kept, deleted |-> deleted]

\* bookkeeping: deleteComment and the deletion notification of a cleanup path
Removed(rem, ths, ids, path) ==
  [id \in DOMAIN rem |->
     IF id \in ids
       THEN [removed |-> IF id \in ThreadIds(ths) THEN Sat(rem[id].removed)
                         ELSE rem[id].removed,
             notified |-> Sat(rem[id].notified),
             by |-> path]
       ELSE rem[id]]

\* bookkeeping of a content change the initialized editor handled: d is the
\* content the transaction produced, e the editor after the handler
Changed(d, e, ths, raised) ==
  [any |-> TRUE, content |-> e.doc,
   valid |-> ThreadIds(GetDocumentComments(ths, documentId)),
   writes |-> 0,
   burst |-> IF saveTimers = {} THEN 1 ELSE Sat(change.burst),
   stripped |-> e.doc # d,
   raised |-> raised]

\* the mark cleanup has marks to remove, so it dispatches a transaction
Dispatches(d, ths, docId) ==
  StripOrphanedMarks(d, ThreadIds(GetDocumentComments(ths, docId))) # d

\* a transaction that changes the content to d while the store holds ths;
\* raise: the dispatch of the mark cleanup raises an exception, which
\* nothing in handleUpdate catches
Transaction(d, ths, raise) ==
  LET e0 == [Ed EXCEPT !.doc = d]
      e == IF raise THEN e0 ELSE HandleUpdate(e0, ths)
  IN /\ raise => isInitialized /\ Dispatches(d, ths, documentId)
     /\ SetEd(e)
     /\ IF isInitialized
          THEN sinceChange' = 0 /\ change' = Changed(d, e, ths, raise)
          ELSE UNCHANGED <<sinceChange, change>>

----------------------------------------------------------------------------
\* one more operation of the user
Act == acts < MaxActs /\ acts' = acts + 1

(* Initial state: the page has mounted and the load effect has run *)

NoChange ==
  [any |-> FALSE, content |-> <<>>, valid |-> {}, writes |-> 0, burst |-> 0,
   stripped |-> FALSE, raised |-> FALSE]
DefaultBrain == [goal |-> "", constraints |-> <<>>, glossary |-> <<>>, decisions |-> <<>>]

\* the empty Record<string, ProjectBrain>
NoBrains == [projectId \in {} |-> DefaultBrain]

\* getBrain
GetBrain(stored, projectId) ==
  IF projectId \in DOMAIN stored THEN stored[projectId] ELSE DefaultBrain

\* variant of saveBrain that keeps the saved project's record alone
SaveBrainAlone(stored, projectId, saved) == projectId :> saved

\* saveBrain
SaveBrain(stored, projectId, saved) == (projectId :> saved) @@ stored

\* the record of the session's project
storedBrain == GetBrain(brains, documentId)

\* updateBrain
UpdateBrain(stored, projectId, updates) ==
  (projectId :> (updates @@ GetBrain(stored, projectId))) @@ stored

\* deleteBrain
DeleteBrain(stored, projectId) == [p \in DOMAIN stored \ {projectId} |-> stored[p]]

\* list.splice(index, 1) for an index from 0 on
Splice(list, index) ==
  IF index >= Len(list) THEN list
  ELSE SubSeq(list, 1, index) \o SubSeq(list, index + 2, Len(list))

AddDecision(stored, projectId, text, at) ==
  SaveBrain(stored, projectId,
            [GetBrain(stored, projectId) EXCEPT
               !.decisions = Append(@, [text |-> text, createdAt |-> at])])

RemoveDecision(stored, projectId, index) ==
  SaveBrain(stored, projectId,
            [GetBrain(stored, projectId) EXCEPT !.decisions = Splice(@, index)])

AddGlossaryTerm(stored, projectId, term, definition) ==
  SaveBrain(stored, projectId,
            [GetBrain(stored, projectId) EXCEPT
               !.glossary = Append(@, [term |-> term, definition |-> definition])])

RemoveGlossaryTerm(stored, projectId, index) ==
  SaveBrain(stored, projectId,
            [GetBrain(stored, projectId) EXCEPT !.glossary = Splice(@, index)])

AddConstraint(stored, projectId, constraint) ==
  SaveBrain(stored, projectId,
            [GetBrain(stored, projectId) EXCEPT !.constraints = Append(@, constraint)])

RemoveConstraint(stored, projectId, index) ==
  SaveBrain(stored, projectId,
            [GetBrain(stored, projectId) EXCEPT !.constraints = Splice(@, index)])

\* values of JavaScript, as JSON.parse delivers them
Undefined == [type |-> "undefined"]
Null == [type |-> "null"]
Boolean(b) == [type |-> "boolean", value |-> b]
Number(n) == [type |-> "number", value |-> n]
String(s) == [type |-> "string", value |-> s]
Array(items) == [type |-> "array", items |-> items]
Object(fields) == [type |-> "object", fields |-> fields]
\* a body request.json() raises on
NotJSON == [type |-> "invalid"]

\* the empty Record<string, {text, position}>
NoData == [id \in {} |-> [text |-> <<>>, position |-> 0]]

\* the store's clock and the panel's view state after construction
NoEditor == [type |-> "null"]
NoOptions == [type |-> "undefined"]
NoPack == [type |-> "none"]
NoCall == [module |-> "none", target |-> "none", returned |-> Undefined]
\* no context pack has been built and no store module called
ClientIdle ==
  /\ editor = NoEditor
  /\ opts = NoOptions
  /\ contextPack = NoPack
  /\ call = NoCall

ApiInit ==
  /\ now = 0
  /\ commentData = NoData
  /\ panelThreads = <<>>
  /\ commentCount = 0
  /\ peerDoc = <<>>
  /\ ClientIdle

\* the AI route before a request has come in
NoRequest == [type |-> "none"]
NoResponse == [status |-> 0]
RouteIdle ==
  /\ request = NoRequest
  /\ credential = TRUE
  /\ phase = "Idle"
  /\ response = NoResponse
  /\ providerCalls = 0
  /\ provider = [state |-> "idle"]
  /\ timeoutTimer = "none"
  /\ elapsed = 0
  /\ method = "POST"

\* the page after it has mounted
\* the page after its mount with the load effect's timer pending, no other
\* timer, the panel closed
PageIdle ==
  /\ documentId = "A"
  /\ editorMounted = TRUE
  /\ isInitialized = FALSE
  /\ initTimer = TRUE
  /\ storedTitle = "Untitled"
  /\ saveTimers = {} /\ saveTimeoutRef = 0
  /\ cleanupTimers = {} /\ cleanupTimeoutRef = 0
  /\ titleTimers = {} /\ titleTimeoutRef = 0
  /\ goalTimers = {} /\ brainSaveTimeoutRef = 0
  /\ isCommentPanelOpen = FALSE
  /\ pendingComment = <<>>
  /\ intervalTimer = -1
  /\ refreshTimers = {}
  /\ brain = DefaultBrain
  /\ sinceChange = Horizon
  /\ change = NoChange
  /\ removal = [id \in 1..MaxThreads |-> [removed |-> 0, notified |-> 0, by |-> "none"]]

PageInit ==
  /\ PageIdle
  /\ doc = <<>>
  /\ nextId = 1
  /\ documents = [d \in Docs |-> <<>>]

\* the editing session: the page over two empty collections
SessionInit ==
  /\ PageInit
  /\ threads = <<>>
  /\ brains = NoBrains
  /\ acts = 0

Init == SessionInit /\ ApiInit /\ RouteIdle

----------------------------------------------------------------------------
(* Editor operations *)

\* setTimeout(() => { isInitializedRef.current = true }, 0)
InitTimerFire ==
  /\ initTimer
  /\ initTimer' = FALSE
  /\ isInitialized' = TRUE
  /\ UNCHANGED acts
  /\ UNCHANGED apiVars
  /\ UNCHANGED <<documentId, doc, editorMounted, storeVars, documents,
                 editorTimerVars, titleVars, brainVars, panelVars,
                 sinceChange, change>>

\* the load effect when the documentId prop changes: the stored content
\* replaces the editor's without an update event; no timer is cleared
LoadDocument(d) ==
  /\ editorMounted
  /\ d # documentId
  /\ documentId' = d
  /\ isInitialized' = FALSE
  /\ doc' = documents[d]
  /\ initTimer' = TRUE
  /\ change' = NoChange
  /\ Act
  /\ UNCHANGED apiVars
  /\ UNCHANGED <<editorMounted, storeVars, documents, editorTimerVars, titleVars,
                 brainVars, panelVars, sinceChange>>

\* the user types or pastes a character; pasted content and undo can bring
\* any comment mark with it
InsertText(pos, c, m, raise) ==
  /\ editorMounted
  /\ Len(doc) < MaxDocLen
  /\ pos \in 1..(Len(doc) + 1)
  /\ m \in {NoMark, EmptyId, ForeignId} \cup 1..(nextId - 1)
  /\ Transaction(InsertAt(doc, pos, Cell(c, m)), threads, raise)
  /\ Act
  /\ UNCHANGED apiVars
  /\ UNCHANGED <<documentId, editorMounted, isInitialized, initTimer, storeVars,
                 documents, titleVars, brainVars, panelVars>>

DeleteText(pos, raise) ==
  /\ editorMounted
  /\ pos \in 1..Len(doc)
  /\ Transaction(RemoveAt(doc, pos), threads, raise)
  /\ Act
  /\ UNCHANGED apiVars
  /\ UNCHANGED <<documentId, editorMounted, isInitialized, initTimer, storeVars,
                 documents, titleVars, brainVars, panelVars>>

\* the content-save timer runs: updateDocument(documentId, {content})
SaveFire ==
  \E t \in Due(saveTimers) :
    /\ saveTimers' = saveTimers \ {t}
    /\ documents' = UpdateDocument(documents, t.payload.docId, t.payload.content)
    /\ change' = [change EXCEPT !.writes = Sat(@)]
    /\ UNCHANGED acts
    /\ UNCHANGED apiVars
    /\ UNCHANGED <<documentId, editorVars, editorMounted, storeVars, saveTimeoutRef,
                   cleanupTimers, cleanupTimeoutRef, titleVars, brainVars,
                   panelVars, sinceChange>>

\* the thread-cleanup timer runs cleanupOrphanedComments; raise: the dispatch
\* of its mark cleanup raises an exception
CleanupFire(raise) ==
  \E t \in Due(cleanupTimers) :
    LET docId == t.payload.docId
        e0 == [Ed EXCEPT !.cleanupTimers = @ \ {t}]
        r == CleanupOrphanedComments(e0, threads, docId)
        e == IF raise THEN e0 ELSE r.ed
    IN /\ raise => Dispatches(doc, r.threads, docId)
       /\ threads' = r.threads
       /\ removal' = Removed(removal, threads, r.deleted, "editor")
       /\ SetEd(e)
       /\ IF e.doc # doc /\ isInitialized
            THEN sinceChange' = 0 /\ change' = Changed(e.doc, e, r.threads, FALSE)
            ELSE UNCHANGED <<sinceChange, change>>
       /\ UNCHANGED acts
       /\ UNCHANGED apiVars
       /\ UNCHANGED <<documentId, editorMounted, isInitialized, initTimer, nextId,
                      documents, titleVars, brainVars, panelVars>>

----------------------------------------------------------------------------
(* Comment panel *)

\* loadThreads: setTimeout(refreshCommentData, 50)
LoadThreads(timers) == timers \cup {RefreshDelay}

\* refreshCommentData: delete every stored thread of the document that no
\* mark carries, and notify for each
RefreshCommentData ==
  LET orphanedThreads == OrphanedThreads(doc, threads, documentId)
  IN /\ threads' = DeleteAll(threads, orphanedThreads)
     /\ removal' = Removed(removal, threads, orphanedThreads, "panel")

\* the toolbar button / the panel's close button
ToggleCommentPanel ==
  /\ editorMounted
  /\ isCommentPanelOpen' = ~ isCommentPanelOpen
  /\ IF isCommentPanelOpen
       THEN /\ pendingComment' = <<>>
            /\ intervalTimer' = -1
            /\ UNCHANGED refreshTimers
       ELSE /\ intervalTimer' = RefreshInterval
            /\ refreshTimers' = LoadThreads(refreshTimers)
            /\ UNCHANGED pendingComment
  /\ Act
  /\ UNCHANGED apiVars
  /\ UNCHANGED <<documentId, editorVars, editorMounted, storeVars, documents,
                 editorTimerVars, titleVars, brainVars, sinceChange, change>>

\* the selection bubble's comment button on the selection [from, to)
HandleAddCommentFromSelection(from, to) ==
  /\ editorMounted
  /\ 1 <= from /\ from < to /\ to <= Len(doc) + 1
  /\ pendingComment' = TextOf(doc, from, to)
  /\ isCommentPanelOpen' = TRUE
  /\ IF isCommentPanelOpen
       THEN UNCHANGED <<intervalTimer, refreshTimers>>
       ELSE /\ intervalTimer' = RefreshInterval
            /\ refreshTimers' = LoadThreads(refreshTimers)
  /\ Act
  /\ UNCHANGED apiVars
  /\ UNCHANGED <<documentId, editorVars, editorMounted, storeVars, documents,
                 editorTimerVars, titleVars, brainVars, sinceChange, change>>

\* variant of handleAddThread that applies the mark before it creates the
\* thread
HandleAddThreadMarkFirst(from, to) ==
  /\ editorMounted
  /\ pendingComment # <<>>
  /\ nextId <= MaxThreads
  /\ 1 <= from /\ from <= to /\ to <= Len(doc) + 1
  /\ threads' = CreateComment(threads, nextId, nextId, documentId, "c", pendingComment, now)
  /\ IF from < to
       THEN Transaction(SetMark(doc, from, to, nextId), threads, FALSE)
       ELSE UNCHANGED <<doc, editorTimerVars, sinceChange, change>>
  /\ nextId' = nextId + 1
  /\ pendingComment' = <<>>
  /\ refreshTimers' = LoadThreads(refreshTimers)
  /\ Act
  /\ UNCHANGED apiVars
  /\ UNCHANGED <<documentId, editorMounted, isInitialized, initTimer, removal,
                 documents, titleVars, brainVars, isCommentPanelOpen,
                 intervalTimer>>

\* handleAddThread while the editor's selection is [from, to)
HandleAddThread(from, to) ==
  /\ editorMounted
  /\ pendingComment # <<>>
  /\ nextId <= MaxThreads
  /\ 1 <= from /\ from <= to /\ to <= Len(doc) + 1
  /\ LET ths == CreateComment(threads, nextId, nextId, documentId, "c", pendingComment, now)
     IN /\ threads' = ths
        /\ IF from < to
             THEN Transaction(SetMark(doc, from, to, nextId), ths, FALSE)
             ELSE UNCHANGED <<doc, editorTimerVars, sinceChange, change>>
  /\ nextId' = nextId + 1
  /\ pendingComment' = <<>>
  /\ refreshTimers' = LoadThreads(refreshTimers)
  /\ Act
  /\ UNCHANGED apiVars
  /\ UNCHANGED <<documentId, editorMounted, isInitialized, initTimer, removal,
                 documents, titleVars, brainVars, isCommentPanelOpen,
                 intervalTimer>>

\* createAIThread(documentId, highlightedText, mode) for the selection [from, to)
AskAI(from, to) ==
  /\ editorMounted
  /\ nextId <= MaxThreads
  /\ 1 <= from /\ from < to /\ to <= Len(doc) + 1
  /\ threads' = CreateAIThread(threads, nextId, documentId, TextOf(doc, from, to), now)
  /\ nextId' = nextId + 1
  /\ Act
  /\ UNCHANGED apiVars
  /\ UNCHANGED <<documentId, editorVars, editorMounted, removal, documents,
                 editorTimerVars, titleVars, brainVars, panelVars, sinceChange,
                 change>>

\* removeCommentMark: the range of the last text node carrying the id
FoundTo(d, id) ==
  LET carrying == {i \in DOMAIN d : d[i].mark = id}
  IN IF carrying = {} THEN -1 ELSE 1 + CHOOSE i \in carrying : \A j \in carrying : j <= i
FoundFrom(d, id) ==
  LET to == FoundTo(d, id)
  IN IF to = -1 THEN -1
     ELSE Min({i \in 1..(to - 1) : \A j \in i..(to - 1) : d[j].mark = id})

\* handleDeleteThread on a thread the panel lists
HandleDeleteThread(id) ==
  /\ editorMounted
  /\ isCommentPanelOpen
  /\ id \in ThreadIds(GetDocumentComments(threads, documentId))
  /\ LET ths == DeleteComment(threads, id)
         foundFrom == FoundFrom(doc, id)
         foundTo == FoundTo(doc, id)
     IN /\ threads' = ths
        /\ IF foundFrom # -1
             THEN Transaction(SetMark(doc, foundFrom, foundTo, NoMark), ths, FALSE)
             ELSE UNCHANGED <<doc, editorTimerVars, sinceChange, change>>
  /\ refreshTimers' = LoadThreads(refreshTimers)
  /\ Act
  /\ UNCHANGED apiVars
  /\ UNCHANGED <<documentId, editorMounted, isInitialized, initTimer, nextId, removal,
                 documents, titleVars, brainVars, isCommentPanelOpen,
                 pendingComment, intervalTimer>>

\* handleDeleteMessage on a message of a thread the panel lists; removing
\* the last message deletes the thread
HandleDeleteMessage(threadId, messageId) ==
  /\ editorMounted
  /\ isCommentPanelOpen
  /\ threadId \in ThreadIds(GetDocumentComments(threads, documentId))
  /\ LET ths == DeleteMessage(threads, threadId, messageId, now)
         threadDeleted == FindIndex(ths, threadId) = 0
         foundFrom == FoundFrom(doc, threadId)
         foundTo == FoundTo(doc, threadId)
     IN /\ threads' = ths
        /\ IF threadDeleted /\ foundFrom # -1
             THEN Transaction(SetMark(doc, foundFrom, foundTo, NoMark), ths, FALSE)
             ELSE UNCHANGED <<doc, editorTimerVars, sinceChange, change>>
  /\ refreshTimers' = LoadThreads(refreshTimers)
  /\ Act
  /\ UNCHANGED apiVars
  /\ UNCHANGED <<documentId, editorMounted, isInitialized, initTimer, nextId, removal,
                 documents, titleVars, brainVars, isCommentPanelOpen,
                 pendingComment, intervalTimer>>

\* the timeout loadThreads set runs refreshCommentData
RefreshFire ==
  /\ 0 \in refreshTimers
  /\ refreshTimers' = refreshTimers \ {0}
  /\ RefreshCommentData
  /\ UNCHANGED acts
  /\ UNCHANGED apiVars
  /\ UNCHANGED <<documentId, editorVars, editorMounted, nextId, documents,
                 editorTimerVars, titleVars, brainVars, isCommentPanelOpen,
                 pendingComment, intervalTimer, sinceChange, change>>

\* the interval of the open panel runs refreshCommentData
IntervalFire ==
  /\ intervalTimer = 0
  /\ intervalTimer' = RefreshInterval
  /\ RefreshCommentData
  /\ UNCHANGED acts
  /\ UNCHANGED apiVars
  /\ UNCHANGED <<documentId, editorVars, editorMounted, nextId, documents,
                 editorTimerVars, titleVars, brainVars, isCommentPanelOpen,
                 pendingComment, refreshTimers, sinceChange, change>>

----------------------------------------------------------------------------
(* Title and Project Brain goal streams *)

\* variant of saveTitle that schedules without clearing the pending timer
SaveTitleNoClear(timers, ref, newTitle, docId) ==
  LET id == FreshTimerId(timers)
  IN [timers |-> timers \cup {Timer(id, TitleDelay, [title |-> newTitle, docId |-> docId])},
      ref |-> id]

\* saveTitle
SaveTitle(timers, ref, newTitle, docId) ==
  LET kept == ClearTimeout(timers, ref)
      id == FreshTimerId(kept)
  IN [timers |-> kept \cup {Timer(id, TitleDelay, [title |-> newTitle, docId |-> docId])},
      ref |-> id]

HandleTitleChange(newTitle) ==
  /\ editorMounted
  /\ LET r == SaveTitle(titleTimers, titleTimeoutRef, newTitle, documentId)
     IN titleTimers' = r.timers /\ titleTimeoutRef' = r.ref
  /\ Act
  /\ UNCHANGED apiVars
  /\ UNCHANGED <<documentId, editorVars, editorMounted, storeVars, documents,
                 storedTitle, editorTimerVars, brainVars, panelVars, sinceChange,
                 change>>

TitleFire ==
  \E t \in Due(titleTimers) :
    /\ titleTimers' = titleTimers \ {t}
    /\ storedTitle' = t.payload.title
    /\ UNCHANGED acts
    /\ UNCHANGED apiVars
    /\ UNCHANGED <<documentId, editorVars, editorMounted, storeVars, documents,
                   titleTimeoutRef, editorTimerVars, brainVars, panelVars,
                   sinceChange, change>>

\* debouncedSaveGoal: the callback closes over the panel's brain state
DebouncedSaveGoal(timers, ref, goal, brainState) ==
  LET kept == ClearTimeout(timers, ref)
      id == FreshTimerId(kept)
  IN [timers |-> kept \cup {Timer(id, GoalDelay, [brain |-> brainState, goal |-> goal])},
      ref |-> id]

HandleGoalChange(value) ==
  /\ editorMounted
  /\ LET r == DebouncedSaveGoal(goalTimers, brainSaveTimeoutRef, value, brain)
     IN goalTimers' = r.timers /\ brainSaveTimeoutRef' = r.ref
  /\ Act
  /\ UNCHANGED apiVars
  /\ UNCHANGED <<documentId, editorVars, editorMounted, storeVars, documents,
                 brains, brain, editorTimerVars, titleVars, panelVars,
                 sinceChange, change>>

GoalFire ==
  \E t \in Due(goalTimers) :
    LET updated == [t.payload.brain EXCEPT !.goal = t.payload.goal]
    IN /\ goalTimers' = goalTimers \ {t}
       /\ brains' = SaveBrain(brains, documentId, updated)
       /\ brain' = IF editorMounted THEN updated ELSE brain
       /\ UNCHANGED acts
       /\ UNCHANGED apiVars
       /\ UNCHANGED <<documentId, editorVars, editorMounted, storeVars, documents,
                      brainSaveTimeoutRef, editorTimerVars, titleVars, panelVars,
                      sinceChange, change>>

\* a handler of the brain panel that calls a function of the brain store
\* and takes the brain it returns for the panel's state
BrainHandler(written) ==
  /\ editorMounted
  /\ brains' = written
  /\ brain' = written[documentId]
  /\ Act
  /\ UNCHANGED apiVars
  /\ UNCHANGED <<documentId, editorVars, editorMounted, storeVars, documents,
                 goalTimers, brainSaveTimeoutRef, editorTimerVars, titleVars,
                 panelVars, sinceChange, change>>

HandleAddConstraint(constraint) ==
  BrainHandler(AddConstraint(brains, documentId, constraint))

HandleRemoveConstraint(index) ==
  /\ index < Len(brain.constraints)
  /\ BrainHandler(RemoveConstraint(brains, documentId, index))

HandleAddGlossaryTerm(term, definition) ==
  BrainHandler(AddGlossaryTerm(brains, documentId, term, definition))

HandleRemoveGlossaryTerm(index) ==
  /\ index < Len(brain.glossary)
  /\ BrainHandler(RemoveGlossaryTerm(brains, documentId, index))

HandleAddDecision(text) ==
  BrainHandler(AddDecision(brains, documentId, text, now))

HandleRemoveDecision(index) ==
  /\ index < Len(brain.decisions)
  /\ BrainHandler(RemoveDecision(brains, documentId, index))

----------------------------------------------------------------------------
(* Disposal of the editing session: the unmount effects of Editor, DocPage
   and CommentPanel; BrainPanel has none *)

EditorUnmount(e) ==
  [e EXCEPT !.saveTimers = ClearTimeout(@, e.saveRef),
            !.cleanupTimers = ClearTimeout(@, e.cleanupRef)]

Unmount ==
  /\ editorMounted
  /\ editorMounted' = FALSE
  /\ SetEd(EditorUnmount(Ed))
  /\ titleTimers' = ClearTimeout(titleTimers, titleTimeoutRef)
  /\ intervalTimer' = -1
  /\ Act
  /\ UNCHANGED apiVars
  /\ UNCHANGED <<documentId, isInitialized, initTimer, storeVars, documents,
                 storedTitle, titleTimeoutRef, brainVars, isCommentPanelOpen,
                 pendingComment, refreshTimers, sinceChange, change>>

----------------------------------------------------------------------------
(* Time *)

Pending ==
  {t.remaining : t \in saveTimers \cup cleanupTimers \cup titleTimers \cup goalTimers}
    \cup refreshTimers
    \cup (IF intervalTimer = -1 THEN {} ELSE {intervalTimer})
    \cup (IF initTimer THEN {0} ELSE {})

\* d milliseconds pass; no timer is overdue
Advance(d) ==
  /\ d > 0
  /\ \A r \in Pending : d <= r
  /\ saveTimers' = Elapse(saveTimers, d)
  /\ cleanupTimers' = Elapse(cleanupTimers, d)
  /\ titleTimers' = Elapse(titleTimers, d)
  /\ goalTimers' = Elapse(goalTimers, d)
  /\ refreshTimers' = {r - d : r \in refreshTimers}
  /\ intervalTimer' = IF intervalTimer = -1 THEN -1 ELSE intervalTimer - d
  /\ sinceChange' = IF sinceChange + d >= Horizon THEN Horizon ELSE sinceChange + d
  /\ UNCHANGED acts
  /\ UNCHANGED apiVars
  /\ UNCHANGED <<documentId, editorVars, editorMounted, storeVars, documents,
                 storedTitle, brains, brain, saveTimeoutRef, cleanupTimeoutRef,
                 titleTimeoutRef, brainSaveTimeoutRef, isCommentPanelOpen,
                 pendingComment, change>>

\* time advances to the next instant at which a timer is due; with no timer
\* pending, past the longest delay of the program
Steps == IF Pending = {} THEN {Horizon - sinceChange} ELSE {Min(Pending)}

----------------------------------------------------------------------------
(* The comment store's interface, called directly *)

sessionVars == <<documentId, editorVars, editorMounted, documents,
                 editorTimerVars, titleVars, brainVars, panelVars, sinceChange,
                 change, removal>>

Statuses == {"pending", "complete", "error"}

\* the keys of the two collections in localStorage
COMMENTS_STORAGE_KEY == "playground:comments"
BRAINS_STORAGE_KEY == "playground:brains"

\* localStorage.setItem(key, JSON.stringify(value))
SetItem(key, value) ==
  /\ threads' = IF key = COMMENTS_STORAGE_KEY THEN value ELSE threads
  /\ brains' = IF key = BRAINS_STORAGE_KEY THEN value ELSE brains

\* what the session holds besides the two collections
sessionOwnVars == <<documentId, editorVars, editorMounted, documents,
                    editorTimerVars, titleVars, goalTimers, brainSaveTimeoutRef,
                    brain, panelVars, sinceChange, change, removal>>

\* variant of a call that writes what it read back whether or not it found
\* its thread
StoreCallWriteBack(ths, ids, wrote, docId, returned) ==
  /\ acts < MaxCalls
  /\ acts' = acts + 1
  /\ nextId + ids - 1 <= MaxIds
  /\ SetItem(COMMENTS_STORAGE_KEY, ths)
  /\ nextId' = nextId + ids
  /\ call' = [module |-> "commentStore", target |-> docId, returned |-> returned]
  /\ UNCHANGED <<now, commentData, panelThreads, commentCount, peerDoc>>
  /\ UNCHANGED <<routeVars, extractVars>>
  /\ UNCHANGED sessionOwnVars

\* a call of the comment store that drew ids values of generateId, wrote
\* ths or returned before it wrote, and returned the value returned
StoreCall(ths, ids, wrote, docId, returned) ==
  /\ acts < MaxCalls
  /\ acts' = acts + 1
  /\ nextId + ids - 1 <= MaxIds
  /\ IF wrote THEN SetItem(COMMENTS_STORAGE_KEY, ths) ELSE UNCHANGED <<threads, brains>>
  /\ nextId' = nextId + ids
  /\ call' = [module |-> "commentStore", target |-> docId, returned |-> returned]
  /\ UNCHANGED <<now, commentData, panelThreads, commentCount, peerDoc>>
  /\ UNCHANGED <<routeVars, extractVars>>
  /\ UNCHANGED sessionOwnVars

\* the threads a call reads
Stored == ReadFromStorage(threads, nextId, now)

\* the thread and the message a call looks for are there
Found(threadId) == FindIndex(threads, threadId) # 0
FoundMessage(threadId, messageId) ==
  /\ Found(threadId)
  /\ FindIndex(Stored.threads[FindIndex(threads, threadId)].messages, messageId) # 0

\* the document of the thread a call names
DocumentOf(threadId) ==
  IF Found(threadId) THEN threads[FindIndex(threads, threadId)].documentId ELSE "none"

\* the values of generateId a push to threadId draws: none when the thread
\* is not found
Drawn(threadId) == IF Found(threadId) THEN 1 ELSE 0

\* Date.now() moves on
Tick ==
  /\ now < MaxNow
  /\ now' = now + 1
  /\ UNCHANGED <<threads, nextId, commentData, panelThreads, commentCount, peerDoc, acts>>
  /\ UNCHANGED <<routeVars, clientVars>>
  /\ UNCHANGED sessionVars

\* the message a push to threadId returns: null when the thread is not found
Pushed(threadId, newMessage) == IF Found(threadId) THEN newMessage ELSE Null

\* createComment draws its two ids before it reads the store
CallCreateComment(docId, content, highlightedText) ==
  LET written == CreateComment(ReadFromStorage(threads, nextId + 2, now).threads,
                               nextId, nextId + 1, docId, content, highlightedText, now)
  IN StoreCall(written, 2 + Stored.ids, TRUE, docId, written[Len(written)])

CallCreateAIThread(docId, highlightedText) ==
  LET written == CreateAIThread(ReadFromStorage(threads, nextId + 1, now).threads,
                                nextId, docId, highlightedText, now)
  IN StoreCall(written, 1 + Stored.ids, TRUE, docId, written[Len(written)])

CallAddReplyToThread(threadId, content) ==
  StoreCall(AddReplyToThread(Stored.threads, threadId, nextId + Stored.ids, content, now),
            Stored.ids + Drawn(threadId), Found(threadId), DocumentOf(threadId),
            Pushed(threadId, Message(nextId + Stored.ids, content, "user", now, "none")))

CallAddUserPromptToAIThread(threadId, prompt) ==
  StoreCall(AddUserPromptToAIThread(Stored.threads, threadId, nextId + Stored.ids, prompt,
                                    now),
            Stored.ids + Drawn(threadId), Found(threadId), DocumentOf(threadId),
            Pushed(threadId, Message(nextId + Stored.ids, prompt, "user", now, "none")))

CallAddAIMessageToThread(threadId, content, status) ==
  StoreCall(AddAIMessageToThread(Stored.threads, threadId, nextId + Stored.ids, content,
                                 status, now),
            Stored.ids + Drawn(threadId), Found(threadId), DocumentOf(threadId),
            Pushed(threadId, Message(nextId + Stored.ids, content, "ai", now, status)))

CallUpdateMessage(threadId, messageId, content) ==
  StoreCall(UpdateMessage(Stored.threads, threadId, messageId, content, now),
            Stored.ids, FoundMessage(threadId, messageId), DocumentOf(threadId), Undefined)

CallUpdateAIMessage(threadId, messageId, content, status) ==
  StoreCall(UpdateAIMessage(Stored.threads, threadId, messageId, content, status, now),
            Stored.ids, FoundMessage(threadId, messageId), DocumentOf(threadId), Undefined)

\* deleteMessage returns true when it has removed the thread
CallDeleteMessage(threadId, messageId) ==
  LET written == DeleteMessage(Stored.threads, threadId, messageId, now)
  IN StoreCall(written, Stored.ids, Found(threadId), DocumentOf(threadId),
               Boolean(Found(threadId) /\ FindIndex(written, threadId) = 0))

\* toggleResolveThread returns threads[index].resolved
CallToggleResolveThread(threadId) ==
  LET written == ToggleResolveThread(Stored.threads, threadId, now)
  IN StoreCall(written, Stored.ids, Found(threadId), DocumentOf(threadId),
               Boolean(Found(threadId) /\ written[FindIndex(written, threadId)].resolved))

CallDeleteComment(id) ==
  StoreCall(DeleteComment(Stored.threads, id), Stored.ids, TRUE, DocumentOf(id), Undefined)

CallDeleteDocumentComments(docId) ==
  StoreCall(DeleteDocumentComments(Stored.threads, docId), Stored.ids, TRUE, docId,
            Undefined)

CallUpdateAIThreadMode(threadId, mode) ==
  StoreCall(UpdateAIThreadMode(Stored.threads, threadId, mode, now),
            Stored.ids, Found(threadId), DocumentOf(threadId), Undefined)

\* a call of the brain store that wrote the collection
BrainCall(written, projectId, returned) ==
  /\ acts < MaxCalls
  /\ acts' = acts + 1
  /\ SetItem(BRAINS_STORAGE_KEY, written)
  /\ call' = [module |-> "brainStore", target |-> projectId, returned |-> returned]
  /\ UNCHANGED <<nextId, now, commentData, panelThreads, commentCount, peerDoc>>
  /\ UNCHANGED <<routeVars, extractVars>>
  /\ UNCHANGED sessionOwnVars

CallSaveBrain(projectId, saved) ==
  BrainCall(SaveBrain(brains, projectId, saved), projectId, Undefined)

\* updateBrain and the add and remove functions return the brain they stored
CallUpdateBrain(projectId, updates) ==
  LET written == UpdateBrain(brains, projectId, updates)
  IN BrainCall(written, projectId, written[projectId])

CallDeleteBrain(projectId) ==
  BrainCall(DeleteBrain(brains, projectId), projectId, Undefined)

CallAddDecision(projectId, text) ==
  LET written == AddDecision(brains, projectId, text, now)
  IN BrainCall(written, projectId, written[projectId])

CallRemoveDecision(projectId, index) ==
  LET written == RemoveDecision(brains, projectId, index)
  IN BrainCall(written, projectId, written[projectId])

CallAddGlossaryTerm(projectId, term, definition) ==
  LET written == AddGlossaryTerm(brains, projectId, term, definition)
  IN BrainCall(written, projectId, written[projectId])

CallRemoveGlossaryTerm(projectId, index) ==
  LET written == RemoveGlossaryTerm(brains, projectId, index)
  IN BrainCall(written, projectId, written[projectId])

CallAddConstraint(projectId, constraint) ==
  LET written == AddConstraint(brains, projectId, constraint)
  IN BrainCall(written, projectId, written[projectId])

CallRemoveConstraint(projectId, index) ==
  LET written == RemoveConstraint(brains, projectId, index)
  IN BrainCall(written, projectId, written[projectId])

----------------------------------------------------------------------------
(* AI route: POST /api/ai.  A string is the sequence of its pieces of text,
   a piece " " is white space. *)

AI_TIMEOUT_MS == 25000
\* the instants at which the model looks at a pending request
TimeStep == AI_TIMEOUT_MS \div 2

\* v[name]; a member the value does not have reads as undefined
Get(v, name) ==
  IF v.type = "object" /\ name \in DOMAIN v.fields THEN v.fields[name] ELSE Undefined

\* !!v
ToBoolean(v) ==
  CASE v.type \in {"undefined", "null"} -> FALSE
    [] v.type = "number" -> v.value # 0
    [] v.type = "string" -> v.value # <<>>
    [] OTHER -> TRUE

\* typeof v
Typeof(v) == IF v.type \in {"null", "array"} THEN "object" ELSE v.type

\* s.trim()
WhiteSpace == {" ", "\n"}
RECURSIVE TrimStart(_)
TrimStart(s) == IF s # <<>> /\ Head(s) \in WhiteSpace THEN TrimStart(Tail(s)) ELSE s
RECURSIVE TrimEnd(_)
TrimEnd(s) ==
  IF s # <<>> /\ s[Len(s)] \in WhiteSpace THEN TrimEnd(SubSeq(s, 1, Len(s) - 1)) ELSE s
Trim(s) == TrimEnd(TrimStart(s))

VALID_MODES == <<"critique", "synthesize">>

\* null: validateRequest found nothing
NoError == <<>>

\* the checks of validateRequest on brain
ValidateBrain(reqBrain) ==
  IF Typeof(reqBrain) # "object" \/ reqBrain = Null
    THEN <<"Field '", "brain", "' must be an object">>
  ELSE IF Get(reqBrain, "goal") # Undefined /\ Typeof(Get(reqBrain, "goal")) # "string"
    THEN <<"Field '", "brain.goal", "' must be a string">>
  ELSE IF Get(reqBrain, "constraints") # Undefined /\ Get(reqBrain, "constraints").type # "array"
    THEN <<"Field '", "brain.constraints", "' must be an array">>
  ELSE IF Get(reqBrain, "glossary") # Undefined /\ Get(reqBrain, "glossary").type # "array"
    THEN <<"Field '", "brain.glossary", "' must be an array">>
  ELSE IF Get(reqBrain, "decisions") # Undefined /\ Get(reqBrain, "decisions").type # "array"
    THEN <<"Field '", "brain.decisions", "' must be an array">>
  ELSE NoError

ValidateRequest(body) ==
  LET mode == Get(body, "mode")
      userPrompt == Get(body, "userPrompt")
      context == Get(body, "context")
      selectedText == Get(context, "selectedText")
      reqBrain == Get(body, "brain")
  IN IF ~ ToBoolean(body) \/ Typeof(body) # "object"
       THEN <<"Request body must be a JSON object">>
     ELSE IF ~ ToBoolean(mode)
       THEN <<"Missing required field: ", "mode">>
     ELSE IF Typeof(mode) # "string"
       THEN <<"Field '", "mode", "' must be a string">>
     ELSE IF \A i \in DOMAIN VALID_MODES : <<VALID_MODES[i]>> # mode.value
       THEN <<"Invalid ", "mode", ": ">> \o mode.value
              \o <<". Must be one of: ", VALID_MODES[1], ", ", VALID_MODES[2]>>
     ELSE IF ~ ToBoolean(userPrompt)
       THEN <<"Missing required field: ", "userPrompt">>
     ELSE IF Typeof(userPrompt) # "string"
       THEN <<"Field '", "userPrompt", "' must be a string">>
     ELSE IF Len(Trim(userPrompt.value)) = 0
       THEN <<"Field '", "userPrompt", "' cannot be empty">>
     ELSE IF ~ ToBoolean(context)
       THEN <<"Missing required field: ", "context">>
     ELSE IF Typeof(context) # "object" \/ context = Null
       THEN <<"Field '", "context", "' must be an object">>
     ELSE IF ~ ToBoolean(selectedText)
       THEN <<"Missing required field: ", "context.selectedText">>
     ELSE IF Typeof(selectedText) # "string"
       THEN <<"Field '", "context.selectedText", "' must be a string">>
     ELSE IF Len(Trim(selectedText.value)) = 0
       THEN <<"Field '", "context.selectedText", "' cannot be empty">>
     ELSE IF ToBoolean(reqBrain)
       THEN ValidateBrain(reqBrain)
     ELSE NoError

\* the outcome of an evaluation that raised
Throw == [threw |-> TRUE]
Return(v) == [threw |-> FALSE, value |-> v]

\* reading a member of v raises a TypeError
Nullish(v) == v.type \in {"undefined", "null"}

\* v.length > 0
LengthPositive(v) ==
  \/ v.type = "array" /\ Len(v.items) > 0
  \/ v.type = "string" /\ Len(v.value) > 0

\* items.join(sep)
RECURSIVE Join(_, _)
Join(items, sep) ==
  IF items = <<>> THEN <<>>
  ELSE IF Len(items) = 1 THEN items[1]
  ELSE items[1] \o <<sep>> \o Join(Tail(items), sep)

\* the lines one section pushes when its condition holds
Section(cond, lines) == IF cond THEN lines ELSE <<>>

\* the Project Brain section of buildUserPrompt.  Whether the condition
\* is decided by goal, by one of the lengths or by none of them, the
\* length of each of the three lists is read, in the condition or in the
\* block: a list that is undefined raises.
BrainSection(reqBrain) ==
  IF Nullish(reqBrain) THEN Throw
  ELSE
    LET goal == Get(reqBrain, "goal")
        constraints == Get(reqBrain, "constraints")
        glossary == Get(reqBrain, "glossary")
        decisions == Get(reqBrain, "decisions")
    IN IF Nullish(constraints) \/ Nullish(glossary) \/ Nullish(decisions) THEN Throw
       ELSE Return(
         Section(ToBoolean(goal) \/ LengthPositive(constraints)
                   \/ LengthPositive(glossary) \/ LengthPositive(decisions),
           <<<<"**Project Brain**:">>>>
           \o Section(ToBoolean(goal), <<<<"Goal: ">> \o goal.value>>)
           \o Section(LengthPositive(constraints),
                <<<<"Constraints: ">> \o Join(constraints.items, ", ")>>)
           \o Section(LengthPositive(glossary),
                <<<<"Glossary:">>>>
                \o [k \in DOMAIN glossary.items |->
                      <<"  - ">> \o glossary.items[k].term \o <<": ">>
                        \o glossary.items[k].definition])
           \o Section(LengthPositive(decisions),
                <<<<"Past decisions:">>>>
                \o [k \in DOMAIN decisions.items |->
                      <<"  - ">> \o decisions.items[k].text])
           \o <<<<>>>>))

\* the lines of the user prompt (joined by "\n"), or the TypeError
BuildUserPrompt(req) ==
  LET context == Get(req, "context")
      localContext == Get(context, "localContext")
      outline == Get(context, "outline")
      fullDocText == Get(context, "fullDocText")
      sources == Get(context, "sources")
      brainLines == BrainSection(Get(req, "brain"))
  IN IF brainLines.threw THEN Throw
     ELSE Return(
       << <<"**Mode**: ">> \o Get(req, "mode").value,
          <<"**User's request**: ">> \o Get(req, "userPrompt").value,
          <<>>,
          <<"**Selected text**:">>,
          Get(context, "selectedText").value,
          <<>> >>
       \o Section(ToBoolean(localContext),
            <<<<"**Context** (surrounding text):">>, localContext.value, <<>>>>)
       \o Section(ToBoolean(outline),
            <<<<"**Document structure**:">>, outline.value, <<>>>>)
       \o brainLines.value
       \o Section(ToBoolean(fullDocText),
            <<<<"**Full document** (for reference only):">>, fullDocText.value, <<>>>>)
       \o Section(ToBoolean(sources) /\ LengthPositive(sources),
            <<<<"**Attached sources**:">>>>
            \o [k \in DOMAIN sources.items |->
                  <<"- ">> \o sources.items[k].title \o <<": ">>
                    \o sources.items[k].excerpt]
            \o <<<<>>>>)
       \o (IF Get(req, "mode").value = <<"critique">>
             THEN <<<<"Provide feedback on the selected text. Be specific and constructive.">>>>
           ELSE IF Get(req, "mode").value = <<"synthesize">>
             THEN <<<<"Suggest an improved version of the selected text. Keep the writer's voice and intent.">>>>
           ELSE <<>>))

SystemPrompt == <<"You are a calm, respectful margin editor ...">>

BuildMarginEditorPrompt(req) ==
  LET userPrompt == BuildUserPrompt(req)
  IN IF userPrompt.threw THEN Throw
     ELSE Return([system |-> SystemPrompt, user |-> userPrompt.value])

\* the fixed messages of the route (the dash after "Sorry" is an em dash
\* in the source)
InvalidJSONMessage == <<"Invalid JSON body">>
NotConfiguredMessage == <<"AI service is not configured. Please add your API key.">>
FailedMessage == <<"Sorry - AI request failed. Please try again.">>
InvalidKeyMessage == <<"Sorry - API key is invalid. Please check your configuration.">>
RateLimitMessage == <<"Sorry - rate limit exceeded. Please try again in a moment.">>
TimeoutMessage == <<"Sorry - AI request took too long. Please try again.">>
TimeoutError == "AI request timed out"

\* the pieces a reply text is written with: the code fence, the word json
\* after it, braces and commas, and the members of a JSON object
\* the fence stands for the three backquotes that open and close a block
Fence == "[fence]"
Json == "json"
MsgM == "\"message\":\"m\""
MsgN == "\"message\":\"n\""
PropP == "\"proposedText\":\"p\""
PropQ == "\"proposedText\":\"q\""
PropEmpty == "\"proposedText\":\"\""
KeyX == "\"x\":"

\* the member a piece of JSON text stands for
Members ==
  (MsgM :> [name |-> "message", value |-> String(<<"m">>)])
    @@ (MsgN :> [name |-> "message", value |-> String(<<"n">>)])
    @@ (PropP :> [name |-> "proposedText", value |-> String(<<"p">>)])
    @@ (PropQ :> [name |-> "proposedText", value |-> String(<<"q">>)])
    @@ (PropEmpty :> [name |-> "proposedText", value |-> String(<<>>)])

NoFields == [name \in {} |-> Undefined]

\* the members between the braces of an object: members separated by
\* commas, a member being one of Members or the key "x" with an empty
\* object; a later member of the same name wins
RECURSIVE ParseMembers(_)
ParseMembers(ms) ==
  LET first ==
        IF ms # <<>> /\ ms[1] \in DOMAIN Members
          THEN [len |-> 1, fields |-> (Members[ms[1]].name :> Members[ms[1]].value)]
        ELSE IF Len(ms) >= 3 /\ SubSeq(ms, 1, 3) = <<KeyX, "{", "}">>
          THEN [len |-> 3, fields |-> ("x" :> Object(NoFields))]
        ELSE [len |-> 0, fields |-> NoFields]
  IN IF first.len = 0 THEN Throw
     ELSE IF Len(ms) = first.len THEN Return(first.fields)
     ELSE IF ms[first.len + 1] # "," THEN Throw
     ELSE LET rest == ParseMembers(SubSeq(ms, first.len + 2, Len(ms)))
          IN IF rest.threw THEN Throw ELSE Return(rest.value @@ first.fields)

\* JSON.parse: white space between the pieces does not count; the text is
\* null or an object, anything else raises a SyntaxError
JSONParse(text) ==
  LET ps == SelectSeq(text, LAMBDA piece : piece \notin WhiteSpace)
  IN IF ps = <<"null">> THEN Return(Null)
     ELSE IF Len(ps) >= 2 /\ ps[1] = "{" /\ ps[Len(ps)] = "}"
       THEN IF Len(ps) = 2 THEN Return(Object(NoFields))
            ELSE LET members == ParseMembers(SubSeq(ps, 2, Len(ps) - 1))
                 IN IF members.threw THEN Throw ELSE Return(Object(members.value))
     ELSE Throw

\* text.match of the pattern  fence (?:json)? \s* \n? ([\s\S]*?) \n? fence
\* of strategy 1: the first fence that
\* has a fence after it opens the block, the next fence closes it; group 1
\* is what stands between them after the word json and white space
FencedBlock(text) ==
  LET fences == {i \in DOMAIN text : text[i] = Fence}
  IN IF Cardinality(fences) < 2 THEN [found |-> FALSE, group |-> <<>>]
     ELSE LET open == Min(fences)
              close == Min(fences \ {open})
              inner == SubSeq(text, open + 1, close - 1)
              body == IF inner # <<>> /\ inner[1] = Json THEN Tail(inner) ELSE inner
          IN [found |-> TRUE, group |-> TrimStart(body)]

\* text.match(/\{[\s\S]*?\}/): from the first opening brace to the first
\* closing brace after it
FirstBraces(text) ==
  LET opens == {i \in DOMAIN text : text[i] = "{"}
      closes == {j \in DOMAIN text : text[j] = "}" /\ opens # {} /\ j > Min(opens)}
  IN IF closes = {} THEN [found |-> FALSE, group |-> <<>>]
     ELSE [found |-> TRUE, group |-> SubSeq(text, Min(opens), Min(closes))]

\* what one extraction strategy of parseJSONResponse gives for the
\* substring it was handed (Null: go on to the next strategy); reading a
\* member of null raises inside the try block of the strategy
Strategy(found, text) ==
  IF ~ found THEN Null
  ELSE LET parsed == JSONParse(text)
       IN IF ~ parsed.threw /\ ToBoolean(Get(parsed.value, "message"))
               /\ ToBoolean(Get(parsed.value, "proposedText"))
            THEN Object([message |-> Get(parsed.value, "message"),
                         proposedText |-> Get(parsed.value, "proposedText")])
          ELSE Null

\* variant of parseJSONResponse that tries the whole text first and the
\* fenced block last
ParseJSONResponseReversed(text) ==
  LET block == FencedBlock(text)
      braces == FirstBraces(text)
      first == Strategy(TRUE, Trim(text))
      second == Strategy(braces.found, braces.group)
  IN IF first # Null THEN first
     ELSE IF second # Null THEN second
     ELSE Strategy(block.found, Trim(block.group))

\* parseJSONResponse: the fenced block, the first braces, the whole text
ParseJSONResponse(text) ==
  LET block == FencedBlock(text)
      braces == FirstBraces(text)
      first == Strategy(block.found, Trim(block.group))
      second == Strategy(braces.found, braces.group)
  IN IF first # Null THEN first
     ELSE IF second # Null THEN second
     ELSE Strategy(TRUE, Trim(text))

\* variant of the catch block that tells no failure from another
ClassifyGeneric(error) == [message |-> FailedMessage]

\* the catch block of apiPromise
Classify(error) ==
  IF error.status = Number(401) THEN [message |-> InvalidKeyMessage]
  ELSE IF error.status = Number(429) THEN [message |-> RateLimitMessage]
  ELSE [message |-> FailedMessage]

\* the Error raised for a reply without text block
NoTextError == [kind |-> "error", status |-> Undefined]

\* variant of apiPromise that looks for JSON in every mode
ApiPromiseParseAlways(outcome, mode) ==
  IF outcome.kind = "error" THEN Classify(outcome)
  ELSE
    LET texts == SelectSeq(outcome.content, LAMBDA block : block.type = "text")
    IN IF texts = <<>> THEN Classify(NoTextError)
       ELSE
         LET responseText == texts[1].text
             parsed == ParseJSONResponse(responseText)
         IN IF parsed # Null
              THEN [message |-> Get(parsed, "message").value,
                    proposedText |-> Get(parsed, "proposedText").value]
            ELSE [message |-> responseText]

\* variant of apiPromise that reports a failure when no JSON was found in
\* synthesize mode
ApiPromiseNoFallback(outcome, mode) ==
  IF outcome.kind = "error" THEN Classify(outcome)
  ELSE
    LET texts == SelectSeq(outcome.content, LAMBDA block : block.type = "text")
    IN IF texts = <<>> THEN Classify(NoTextError)
       ELSE
         LET responseText == texts[1].text
             parsed == IF mode = <<"synthesize">> THEN ParseJSONResponse(responseText)
                       ELSE Null
         IN IF parsed # Null
              THEN [message |-> Get(parsed, "message").value,
                    proposedText |-> Get(parsed, "proposedText").value]
            ELSE IF mode = <<"synthesize">> THEN Classify(NoTextError)
            ELSE [message |-> responseText]

\* the value apiPromise is fulfilled with when messages.create settled
\* with outcome (apiPromise is never rejected)
ApiPromise(outcome, mode) ==
  IF outcome.kind = "error" THEN Classify(outcome)
  ELSE
    LET texts == SelectSeq(outcome.content, LAMBDA block : block.type = "text")
    IN IF texts = <<>> THEN Classify(NoTextError)
       ELSE
         LET responseText == texts[1].text
             parsed == IF mode = <<"synthesize">> THEN ParseJSONResponse(responseText)
                       ELSE Null
         IN IF parsed # Null
              THEN [message |-> Get(parsed, "message").value,
                    proposedText |-> Get(parsed, "proposedText").value]
            ELSE [message |-> responseText]

\* variant of the catch block around Promise.race that passes every
\* rejection on
Rethrow(error) == Throw

\* the catch block around Promise.race
CatchRace(error) ==
  IF error = TimeoutError THEN Return([message |-> TimeoutMessage]) ELSE Throw

\* what POST returns for the outcome of callAnthropicWithTimeout
PostResult(result) ==
  IF result.threw THEN [status |-> 500, payload |-> [message |-> FailedMessage]]
  ELSE [status |-> 200, payload |-> result.value]

\* variant of the race in which the last settlement decides
SettleLast(current, result) == result

\* Promise.race: the first settlement decides, a later one is dropped
Settle(current, result) == IF current = NoResponse THEN result ELSE current

MethodNotAllowedMessage == <<"Method not allowed. Use POST.">>

\* the handlers GET, PUT and DELETE
MethodNotAllowed ==
  /\ method \in {"GET", "PUT", "DELETE"}
  /\ phase = "Received"
  /\ response' = [status |-> 405, payload |-> [error |-> MethodNotAllowedMessage]]
  /\ phase' = "NotAllowed"
  /\ UNCHANGED <<clientVars, method, request, credential, providerCalls, provider, timeoutTimer,
                 elapsed>>
  /\ UNCHANGED <<now, commentData, panelThreads, commentCount, peerDoc, threads, nextId, acts>>
  /\ UNCHANGED sessionVars

\* variant of the route in which one handler serves every method
ValidateAnyMethod ==
  /\ phase = "Received"
  /\ IF request = NotJSON
       THEN /\ response' = [status |-> 400, payload |-> [error |-> InvalidJSONMessage]]
            /\ phase' = "Rejected"
     ELSE LET validationError == ValidateRequest(request)
          IN IF validationError # NoError
               THEN /\ response' = [status |-> 400, payload |-> [error |-> validationError]]
                    /\ phase' = "Rejected"
             ELSE /\ phase' = "Validated"
                  /\ UNCHANGED response
  /\ UNCHANGED <<clientVars, method, request, credential, providerCalls, provider, timeoutTimer,
                 elapsed>>
  /\ UNCHANGED <<now, commentData, panelThreads, commentCount, peerDoc, threads, nextId, acts>>
  /\ UNCHANGED sessionVars

\* variant of POST that looks for the API key before it validates
CredentialFirst ==
  /\ phase = "Received"
  /\ IF ~ credential
       THEN /\ response' = [status |-> 500, payload |-> [message |-> NotConfiguredMessage]]
            /\ phase' = "Unconfigured"
     ELSE IF request = NotJSON
       THEN /\ response' = [status |-> 400, payload |-> [error |-> InvalidJSONMessage]]
            /\ phase' = "Rejected"
     ELSE IF ValidateRequest(request) # NoError
       THEN /\ response' = [status |-> 400, payload |-> [error |-> ValidateRequest(request)]]
            /\ phase' = "Rejected"
     ELSE /\ phase' = "Validated"
          /\ UNCHANGED response
  /\ UNCHANGED <<clientVars, method, request, credential, providerCalls, provider, timeoutTimer, elapsed>>
  /\ UNCHANGED <<now, commentData, panelThreads, commentCount, peerDoc, threads, nextId, acts>>
  /\ UNCHANGED sessionVars

\* POST, up to the validation: request.json(), validateRequest
Validate ==
  /\ method = "POST"
  /\ phase = "Received"
  /\ IF request = NotJSON
       THEN /\ response' = [status |-> 400, payload |-> [error |-> InvalidJSONMessage]]
            /\ phase' = "Rejected"
     ELSE LET validationError == ValidateRequest(request)
          IN IF validationError # NoError
               THEN /\ response' = [status |-> 400, payload |-> [error |-> validationError]]
                    /\ phase' = "Rejected"
             ELSE /\ phase' = "Validated"
                  /\ UNCHANGED response
  /\ UNCHANGED <<clientVars, method, request, credential, providerCalls, provider, timeoutTimer, elapsed>>
  /\ UNCHANGED <<now, commentData, panelThreads, commentCount, peerDoc, threads, nextId, acts>>
  /\ UNCHANGED sessionVars

\* variant of POST that goes on without looking for the API key
DispatchUnchecked ==
  /\ phase = "Validated"
  /\ IF BuildMarginEditorPrompt(request).threw
       THEN /\ response' = PostResult(Throw)
            /\ phase' = "Errored"
            /\ UNCHANGED <<providerCalls, provider, timeoutTimer>>
     ELSE /\ timeoutTimer' = "armed"
          /\ providerCalls' = providerCalls + 1
          /\ provider' = [state |-> "pending",
                       prompts |-> BuildMarginEditorPrompt(request).value]
          /\ phase' = "Dispatched"
          /\ UNCHANGED response
  /\ UNCHANGED <<clientVars, method, request, credential, elapsed>>
  /\ UNCHANGED <<now, commentData, panelThreads, commentCount, peerDoc, threads, nextId, acts>>
  /\ UNCHANGED sessionVars

\* POST after the validation: the API key, buildMarginEditorPrompt, and
\* callAnthropicWithTimeout up to its await (the timer is set, then
\* messages.create is called); an exception lands in the catch of POST
Dispatch ==
  /\ phase = "Validated"
  /\ IF ~ credential
       THEN /\ response' = [status |-> 500, payload |-> [message |-> NotConfiguredMessage]]
            /\ phase' = "Unconfigured"
            /\ UNCHANGED <<providerCalls, provider, timeoutTimer>>
     ELSE IF BuildMarginEditorPrompt(request).threw
       THEN /\ response' = PostResult(Throw)
            /\ phase' = "Errored"
            /\ UNCHANGED <<providerCalls, provider, timeoutTimer>>
     ELSE /\ timeoutTimer' = "armed"
          /\ providerCalls' = providerCalls + 1
          /\ provider' = [state |-> "pending",
                       prompts |-> BuildMarginEditorPrompt(request).value]
          /\ phase' = "Dispatched"
          /\ UNCHANGED response
  /\ UNCHANGED <<clientVars, method, request, credential, elapsed>>
  /\ UNCHANGED <<now, commentData, panelThreads, commentCount, peerDoc, threads, nextId, acts>>
  /\ UNCHANGED sessionVars

\* the ways messages.create settles
TextBlock(text) == [type |-> "text", text |-> text]
OtherBlock == [type |-> "tool_use"]
Reply(content) == [kind |-> "reply", content |-> content]
Failure(status) == [kind |-> "error", status |-> status]
Outcomes ==
  {Reply(<<TextBlock(<<"r">>)>>), Reply(<<TextBlock(<<"{", MsgM, ",", PropP, "}">>)>>),
   Reply(<<OtherBlock>>), Reply(<<OtherBlock, TextBlock(<<"r">>)>>),
   Failure(Number(401)), Failure(Number(429)), Failure(Number(500)),
   Failure(Undefined)}

Succeeded(outcome) ==
  outcome.kind = "reply" /\ \E k \in DOMAIN outcome.content : outcome.content[k].type = "text"

\* messages.create settles: apiPromise is fulfilled, and the race with it
\* if the timer has not fired
ProviderSettles(outcome) ==
  /\ provider.state = "pending"
  /\ provider' = [state |-> "settled", outcome |-> outcome]
  /\ response' =
       Settle(response, PostResult(Return(ApiPromise(outcome, Get(request, "mode").value))))
  /\ phase' = IF phase # "Dispatched" THEN phase
              ELSE IF Succeeded(outcome) THEN "Completed" ELSE "Failed"
  /\ UNCHANGED <<clientVars, method, request, credential, providerCalls, timeoutTimer, elapsed>>
  /\ UNCHANGED <<now, commentData, panelThreads, commentCount, peerDoc, threads, nextId, acts>>
  /\ UNCHANGED sessionVars

\* the timer of timeoutPromise is due: the promise is rejected, and the
\* race with it if apiPromise has not been fulfilled
TimeoutFires ==
  /\ timeoutTimer = "armed"
  /\ elapsed = AI_TIMEOUT_MS
  /\ timeoutTimer' = "fired"
  /\ response' = Settle(response, PostResult(CatchRace(TimeoutError)))
  /\ phase' = IF phase = "Dispatched" THEN "TimedOut" ELSE phase
  /\ UNCHANGED <<clientVars, method, request, credential, providerCalls, provider, elapsed>>
  /\ UNCHANGED <<now, commentData, panelThreads, commentCount, peerDoc, threads, nextId, acts>>
  /\ UNCHANGED sessionVars

\* time passes while the timer is set
Wait ==
  /\ timeoutTimer = "armed"
  /\ elapsed < AI_TIMEOUT_MS
  /\ elapsed' = elapsed + TimeStep
  /\ UNCHANGED <<clientVars, method, request, credential, phase, response, providerCalls, provider,
                 timeoutTimer>>
  /\ UNCHANGED <<now, commentData, panelThreads, commentCount, peerDoc, threads, nextId, acts>>
  /\ UNCHANGED sessionVars

----------------------------------------------------------------------------
(* Specifications *)

Marks == {NoMark, EmptyId, ForeignId} \cup 1..MaxThreads
Ranges == {r \in (1..(MaxDocLen + 1)) \X (1..(MaxDocLen + 1)) : r[1] <= r[2]}

\* the editor, the comment panel and the store, with no failure of the
\* content engine
Next ==
  \/ InitTimerFire
  \/ \E pos \in 1..MaxDocLen, m \in Marks : InsertText(pos, "a", m, FALSE)
  \/ \E pos \in 1..MaxDocLen : DeleteText(pos, FALSE)
  \/ ToggleCommentPanel
  \/ \E r \in Ranges : HandleAddCommentFromSelection(r[1], r[2])
  \/ \E r \in Ranges : HandleAddThread(r[1], r[2])
  \/ \E r \in Ranges : AskAI(r[1], r[2])
  \/ \E id \in 1..MaxThreads : HandleDeleteThread(id)
  \/ SaveFire
  \/ CleanupFire(FALSE)
  \/ RefreshFire
  \/ IntervalFire
  \/ \E d \in Steps : Advance(d)

Spec == Init /\ [][Next]_vars

\* the brain panel: the debounced goal save and the handlers of the three
\* lists
MaxEntries == 1     \* entries the user adds to each list of the brain

NextBrain ==
  \/ InitTimerFire
  \/ \E g \in Goals : HandleGoalChange(g)
  \/ GoalFire
  \/ Len(brain.constraints) < MaxEntries /\ HandleAddConstraint("k")
  \/ HandleRemoveConstraint(0)
  \/ Len(brain.glossary) < MaxEntries /\ HandleAddGlossaryTerm("t", "x")
  \/ HandleRemoveGlossaryTerm(0)
  \/ Len(brain.decisions) < MaxEntries /\ HandleAddDecision("y")
  \/ HandleRemoveDecision(0)
  \/ \E d \in Steps : Advance(d)

SpecBrain == Init /\ [][NextBrain]_vars

\* the editor on two stored documents, each with a thread of its own that a
\* mark in its content anchors, and the switch from one to the other
MarkedContents(id) ==
  {<<Cell("a", id)>>, <<Cell("a", id), Cell("b", NoMark)>>}

\* the thread createComment stored for the document
ThreadOf(id, docId) == CreateComment(<<>>, id, id, docId, "c", <<"a">>, 0)[1]

InitLoaded ==
  /\ PageIdle
  /\ documents \in {("A" :> a) @@ ("B" :> b) :
                      a \in MarkedContents(1), b \in MarkedContents(2)}
  /\ doc = documents["A"]
  /\ threads = <<ThreadOf(1, "A"), ThreadOf(2, "B")>>
  /\ nextId = MaxThreads + 1
  /\ brains = NoBrains
  /\ acts = 0
  /\ ApiInit
  /\ RouteIdle

NextSwitch ==
  \/ InitTimerFire
  \/ \E pos \in 1..MaxDocLen : InsertText(pos, "a", NoMark, FALSE)
  \/ \E pos \in 1..MaxDocLen : DeleteText(pos, FALSE)
  \/ \E d \in Docs : LoadDocument(d)
  \/ SaveFire
  \/ CleanupFire(FALSE)
  \/ \E d \in Steps : Advance(d)

SpecSwitch == InitLoaded /\ [][NextSwitch]_vars

\* the initialized editor on a stored document of three characters whose
\* marks can repeat an id in disjoint ranges, and the panel's two ways to
\* delete a thread
MarkedTrees == [1..MaxTreeLen -> {Cell("a", m) : m \in {NoMark} \cup 1..MaxThreads}]

\* the threads stored for the marks of d: the first with one message, the
\* second with a reply
ThreadsOf(d) ==
  SelectSeq(<<ThreadOf(1, "A"),
              PushMessage(<<ThreadOf(2, "A")>>, 1,
                          Message(MaxThreads + 1, "d", "user", 0, "none"), 0)[1]>>,
            LAMBDA t : t.id \in ActiveCommentIds(d))

ListedMessages == 1..(MaxThreads + 1)

\* the editor after the load of the stored content doc and the 0 ms timer
EditorReady ==
  /\ documentId = "A"
  /\ editorMounted = TRUE
  /\ isInitialized = TRUE
  /\ initTimer = FALSE
  /\ documents = ("A" :> doc) @@ ("B" :> <<>>)
  /\ threads = ThreadsOf(doc)
  /\ nextId = MaxThreads + 1
  /\ storedTitle = "Untitled"
  /\ saveTimers = {} /\ saveTimeoutRef = 0
  /\ cleanupTimers = {} /\ cleanupTimeoutRef = 0
  /\ titleTimers = {} /\ titleTimeoutRef = 0
  /\ goalTimers = {} /\ brainSaveTimeoutRef = 0
  /\ pendingComment = <<>>
  /\ refreshTimers = {}
  /\ brain = DefaultBrain
  /\ sinceChange = Horizon
  /\ change = NoChange
  /\ removal = [id \in 1..MaxThreads |-> [removed |-> 0, notified |-> 0, by |-> "none"]]
  /\ brains = NoBrains
  /\ acts = 0
  /\ RouteIdle

InitDelete ==
  /\ doc \in MarkedTrees
  /\ EditorReady
  /\ isCommentPanelOpen = FALSE
  /\ intervalTimer = -1
  /\ ApiInit

NextDelete ==
  \/ ToggleCommentPanel
  \/ \E id \in 1..MaxThreads : HandleDeleteThread(id)
  \/ \E id \in 1..MaxThreads, m \in ListedMessages : HandleDeleteMessage(id, m)
  \/ \E pos \in 1..MaxTreeLen : DeleteText(pos, FALSE)
  \/ SaveFire
  \/ CleanupFire(FALSE)
  \/ RefreshFire
  \/ IntervalFire
  \/ \E d \in Steps : Advance(d)

SpecDelete == InitDelete /\ [][NextDelete]_vars

\* this surface with its panel open and its view state loaded, while
\* another surface on the same origin calls the comment store; no component
\* calls subscribeToCommentChanges, so a write of the other surface runs
\* nothing here
StoredCount == Len(GetDocumentComments(threads, documentId))

InitSync ==
  /\ doc \in {<<Cell("a", 1)>>, <<Cell("a", 1), Cell("a", 2)>>}
  /\ EditorReady
  /\ isCommentPanelOpen = TRUE
  /\ intervalTimer = RefreshInterval
  /\ now = 0
  /\ commentData = GetAllCommentData(doc)
  /\ panelThreads = GetDocumentComments(threads, documentId)
  /\ commentCount = StoredCount
  /\ peerDoc = <<>>
  /\ ClientIdle

\* the interval of the open panel runs refreshCommentData: setCommentData,
\* and when it deleted orphaned threads setThreads and, through
\* onDeleteComment, loadCommentCount
IntervalRefresh ==
  /\ editorMounted
  /\ isCommentPanelOpen
  /\ commentData' = GetAllCommentData(doc)
  /\ RefreshCommentData
  /\ IF OrphanedThreads(doc, threads, documentId) # {}
       THEN /\ panelThreads' = GetDocumentComments(threads', documentId)
            /\ commentCount' = Len(GetDocumentComments(threads', documentId))
       ELSE UNCHANGED <<panelThreads, commentCount>>
  /\ UNCHANGED <<nextId, now, acts, brains, peerDoc>>
  /\ UNCHANGED <<routeVars, clientVars>>
  /\ UNCHANGED <<documentId, editorVars, editorMounted, documents, editorTimerVars,
                 titleVars, goalTimers, brainSaveTimeoutRef, brain, panelVars,
                 sinceChange, change>>

NextSync ==
  \/ \E c \in Contents, h \in Snapshots : CallCreateComment("A", c, h)
  \/ \E t \in 1..MaxThreads, c \in Contents : CallAddReplyToThread(t, c)
  \/ \E t \in 1..MaxThreads : CallToggleResolveThread(t)
  \/ \E t \in 1..MaxThreads : CallDeleteComment(t)
  \/ IntervalRefresh

SpecSync == InitSync /\ [][NextSync]_vars

\* two surfaces on the same document: this one, and a peer that has loaded
\* the same stored content, which has no thread yet, and whose user adds
\* threads. Of the peer, the
\* content of its editor is kept; its own timers, which would persist its
\* content and run its cleanup on this surface's threads, are left out.

\* handleAddThread in the peer on its selection [from, to): createComment,
\* then the mark on the peer's content and the mark cleanup of its update
\* handler
PeerAddThread(from, to) ==
  /\ nextId <= MaxIds
  /\ 1 <= from /\ from < to /\ to <= Len(peerDoc) + 1
  /\ LET ths == CreateComment(threads, nextId, nextId, documentId, "c",
                              TextOf(peerDoc, from, to), now)
     IN /\ threads' = ths
        /\ peerDoc' = StripOrphanedMarks(SetMark(peerDoc, from, to, nextId),
                                         ThreadIds(GetDocumentComments(ths, documentId)))
  /\ nextId' = nextId + 1
  /\ Act
  /\ UNCHANGED <<now, commentData, panelThreads, commentCount, brains, removal>>
  /\ UNCHANGED <<routeVars, clientVars>>
  /\ UNCHANGED <<documentId, editorVars, editorMounted, documents, editorTimerVars,
                 titleVars, goalTimers, brainSaveTimeoutRef, brain, panelVars,
                 sinceChange, change>>

InitPeers ==
  /\ doc \in {<<Cell("a", NoMark)>>, <<Cell("a", NoMark), Cell("b", NoMark)>>}
  /\ EditorReady
  /\ isCommentPanelOpen = FALSE
  /\ intervalTimer = -1
  /\ now = 0
  /\ commentData = NoData
  /\ panelThreads = <<>>
  /\ commentCount = 0
  /\ peerDoc = doc
  /\ ClientIdle

NextPeers ==
  \/ \E r \in Ranges : PeerAddThread(r[1], r[2])
  \/ \E pos \in 1..MaxDocLen : InsertText(pos, "a", NoMark, FALSE)
  \/ \E pos \in 1..MaxDocLen : DeleteText(pos, FALSE)
  \/ SaveFire
  \/ CleanupFire(FALSE)
  \/ \E d \in Steps : Advance(d)

SpecPeers == InitPeers /\ [][NextPeers]_vars

\* the four debounced streams and the disposal of the session, on content
\* without comments
NextStreams ==
  \/ InitTimerFire
  \/ \E pos \in 1..MaxDocLen, c \in Chars : InsertText(pos, c, NoMark, FALSE)
  \/ \E pos \in 1..MaxDocLen : DeleteText(pos, FALSE)
  \/ \E t \in Titles : HandleTitleChange(t)
  \/ \E g \in Goals : HandleGoalChange(g)
  \/ SaveFire
  \/ CleanupFire(FALSE)
  \/ TitleFire
  \/ GoalFire
  \/ Unmount
  \/ \E d \in Steps : Advance(d)

SpecStreams == Init /\ [][NextStreams]_vars

\* the editor alone, where the transaction the mark cleanup dispatches can
\* raise an exception
NextFault ==
  \/ InitTimerFire
  \/ \E pos \in 1..MaxDocLen, m \in Marks, raise \in BOOLEAN :
       InsertText(pos, "a", m, raise)
  \/ \E pos \in 1..MaxDocLen, raise \in BOOLEAN : DeleteText(pos, raise)
  \/ SaveFire
  \/ \E raise \in BOOLEAN : CleanupFire(raise)
  \/ \E d \in Steps : Advance(d)

SpecFault == Init /\ [][NextFault]_vars

\* the comment store under any sequence of calls of its interface
\* the ids of the records an earlier session stored
EarlierId(k) == MaxIds + 1 + k

\* the thread ids and message ids a caller passes: those in the store and
\* one that is not
ThreadArgs == ThreadIds(threads) \cup {MaxIds + 1}
\* with the id of the thread an earlier session stored, which is not in the
\* store once it has been deleted
LaterArgs == ThreadArgs \cup {EarlierId(1)}
MessageArgs(threadId) ==
  LET index == FindIndex(threads, threadId)
  IN (IF index = 0 THEN {} ELSE ThreadIds(Stored.threads[index].messages)) \cup {MaxIds + 1}

NextStore ==
  \/ Tick
  \/ \E d \in Docs, c \in Contents, h \in Snapshots : CallCreateComment(d, c, h)
  \/ \E d \in Docs, h \in Snapshots : CallCreateAIThread(d, h)
  \/ \E t \in ThreadArgs, c \in Contents : CallAddReplyToThread(t, c)
  \/ \E t \in ThreadArgs, c \in Contents : CallAddUserPromptToAIThread(t, c)
  \/ \E t \in ThreadArgs, c \in Contents, st \in Statuses :
       CallAddAIMessageToThread(t, c, st)
  \/ \E t \in ThreadArgs : \E m \in MessageArgs(t), c \in Contents :
       CallUpdateMessage(t, m, c)
  \/ \E t \in ThreadArgs : \E m \in MessageArgs(t), c \in Contents, st \in Statuses :
       CallUpdateAIMessage(t, m, c, st)
  \/ \E t \in ThreadArgs : \E m \in MessageArgs(t) : CallDeleteMessage(t, m)
  \/ \E t \in ThreadArgs : CallToggleResolveThread(t)
  \/ \E t \in ThreadArgs : CallDeleteComment(t)

SpecStore == Init /\ [][NextStore]_vars

\* the position resolver and the panel's ordering on any content tree and
\* any list of threads
ResolverMarks == {NoMark, EmptyId, ProtoId} \cup 1..MaxThreads
Trees ==
  UNION {[1..n -> {Cell(c, m) : c \in Chars, m \in ResolverMarks}] : n \in 0..MaxTreeLen}

\* a thread as createComment stores it
StoredThread(id) == CreateComment(<<>>, id, id, "A", "c", <<"a">>, 0)[1]

\* the lists of distinct threads with ids up to MaxThreads + 1
ThreadLists ==
  LET ids == 1..(MaxThreads + 1)
      orders == UNION {[1..n -> ids] : n \in 0..(MaxThreads + 1)}
  IN {[k \in DOMAIN o |-> StoredThread(o[k])] :
        o \in {q \in orders : \A x \in DOMAIN q : \A y \in DOMAIN q : x # y => q[x] # q[y]}}

InitResolver ==
  /\ documentId = "A"
  /\ doc \in Trees
  /\ editorMounted = TRUE
  /\ isInitialized = FALSE
  /\ initTimer = TRUE
  /\ threads = <<>>
  /\ nextId = 1
  /\ documents = [d \in Docs |-> <<>>]
  /\ storedTitle = "Untitled"
  /\ brains = NoBrains
  /\ saveTimers = {} /\ saveTimeoutRef = 0
  /\ cleanupTimers = {} /\ cleanupTimeoutRef = 0
  /\ titleTimers = {} /\ titleTimeoutRef = 0
  /\ goalTimers = {} /\ brainSaveTimeoutRef = 0
  /\ isCommentPanelOpen = TRUE
  /\ pendingComment = <<>>
  /\ intervalTimer = -1
  /\ refreshTimers = {}
  /\ brain = DefaultBrain
  /\ sinceChange = Horizon
  /\ change = NoChange
  /\ removal = [id \in 1..MaxThreads |-> [removed |-> 0, notified |-> 0, by |-> "none"]]
  /\ acts = 0
  /\ now = 0
  /\ commentData = NoData
  /\ panelThreads \in ThreadLists
  /\ commentCount = 0
  /\ peerDoc = <<>>
  /\ RouteIdle
  /\ ClientIdle

\* const data = editorMethods.getAllCommentData(); setCommentData(data)
SetCommentData ==
  /\ acts = 0
  /\ acts' = 1
  /\ commentData' = GetAllCommentData(doc)
  /\ UNCHANGED <<threads, nextId, now, panelThreads, commentCount, peerDoc>>
  /\ UNCHANGED <<routeVars, clientVars>>
  /\ UNCHANGED sessionVars

NextResolver == SetCommentData

SpecResolver == InitResolver /\ [][NextResolver]_vars

\* the AI route on any request body, with and without API key
ModeValues ==
  {Undefined, Number(1), String(<<"critique">>), String(<<"synthesize">>),
   String(<<"rewrite">>)}
TextValues == {Undefined, Number(1), String(<<" ">>), String(<<"p">>)}
ContextValues ==
  {Undefined, String(<<"x">>)} \cup {Object([selectedText |-> s]) : s \in TextValues}
GoalValues == {Undefined, Number(1), String(<<"g">>)}
ListValues(item) == {Undefined, String(<<"x">>), Array(<<>>), Array(<<item>>)}
BrainValues ==
  {Undefined, String(<<"x">>)}
    \cup {Object([goal |-> g, constraints |-> c, glossary |-> l, decisions |-> d]) :
            g \in GoalValues,
            c \in ListValues(<<"k">>),
            l \in ListValues([term |-> <<"t">>, definition |-> <<"d">>]),
            d \in ListValues([text |-> <<"x">>])}
Bodies ==
  {NotJSON, Null, Number(1)}
    \cup {Object([mode |-> m, userPrompt |-> u, context |-> c, brain |-> b]) :
            m \in ModeValues, u \in TextValues, c \in ContextValues, b \in BrainValues}

InitRoute ==
  /\ SessionInit
  /\ ApiInit
  /\ request \in Bodies
  /\ credential \in BOOLEAN
  /\ phase = "Received"
  /\ response = NoResponse
  /\ providerCalls = 0
  /\ provider = [state |-> "idle"]
  /\ timeoutTimer = "none"
  /\ elapsed = 0
  /\ method = "POST"

NextRoute ==
  \/ Validate
  \/ Dispatch
  \/ \E outcome \in Outcomes : ProviderSettles(outcome)
  \/ TimeoutFires
  \/ Wait

SpecRoute == InitRoute /\ [][NextRoute]_vars


\* the AI route on any reply text of the provider
ObjectText(members) == <<"{">> \o members \o <<"}">>
ReplyBodies ==
  {ObjectText(<<MsgM, ",", PropP>>), ObjectText(<<MsgN, ",", PropQ>>),
   ObjectText(<<MsgM>>), ObjectText(<<MsgM, ",", PropP, ",", KeyX, "{", "}">>),
   ObjectText(<<MsgM, ",", PropEmpty>>), <<"null">>, <<"{", MsgM>>}
Fenced(body) == <<Fence>> \o body \o <<Fence>>
FencedJson(body) == <<Fence, Json, "\n">> \o body \o <<"\n", Fence>>
Segments ==
  {<<"r">>, <<Fence>>} \cup ReplyBodies
    \cup {Fenced(b) : b \in ReplyBodies} \cup {FencedJson(b) : b \in ReplyBodies}

RECURSIVE Flatten(_)
Flatten(ss) == IF ss = <<>> THEN <<>> ELSE Head(ss) \o Flatten(Tail(ss))

ReplyTexts == {Flatten(ss) : ss \in UNION {[1..n -> Segments] : n \in 0..MaxSegments}}

\* the request of the critique scenario, which carries no brain
ScenarioRequest ==
  Object([mode |-> String(<<"critique">>),
          userPrompt |-> String(<<"Is this clear?">>),
          context |-> Object([selectedText |-> String(<<"The fox jumps.">>)]),
          brain |-> Undefined])

\* the payload of the test script
TestPayload(mode) ==
  Object([mode |-> String(<<mode>>),
          userPrompt |-> String(<<"Is this sentence clear and concise?">>),
          context |->
            Object([selectedText |-> String(<<"The quick brown fox jumps over the lazy dog.">>),
                    localContext |-> String(<<"This is a sample paragraph about animals.">>),
                    outline |-> String(<<"# Introduction", "\n", "## Animals">>)]),
          brain |->
            Object([goal |-> String(<<"Write a clear essay about animals">>),
                    constraints |-> Array(<<<<"Keep it simple">>, <<"Use active voice">>>>),
                    glossary |-> Array(<<>>),
                    decisions |-> Array(<<>>)])])

InitReplies ==
  /\ SessionInit
  /\ ApiInit
  /\ request \in {ScenarioRequest, TestPayload("critique"), TestPayload("synthesize")}
  /\ credential = TRUE
  /\ phase = "Received"
  /\ response = NoResponse
  /\ providerCalls = 0
  /\ provider = [state |-> "idle"]
  /\ timeoutTimer = "none"
  /\ elapsed = 0
  /\ method = "POST"

NextReplies ==
  \/ Validate
  \/ Dispatch
  \/ \E text \in ReplyTexts : ProviderSettles(Reply(<<TextBlock(text)>>))
  \/ TimeoutFires
  \/ Wait

SpecReplies == InitReplies /\ [][NextReplies]_vars

\* requests that pass the validation, with each optional part absent,
\* empty or filled
Optional(name, values) == {NoFields} \cup {name :> v : v \in values}
PromptContexts ==
  {Object(("selectedText" :> String(<<"s">>)) @@ l @@ o @@ f @@ s) :
     l \in Optional("localContext", {String(<<>>), String(<<"l">>)}),
     o \in Optional("outline", {String(<<"# o">>)}),
     f \in Optional("fullDocText", {String(<<"f">>)}),
     s \in Optional("sources", {Array(<<>>),
                                Array(<<[title |-> <<"t">>, excerpt |-> <<"e">>]>>)})}
PromptBrains ==
  {Object(g @@ [constraints |-> Array(c), glossary |-> Array(gl), decisions |-> Array(d)]) :
     g \in Optional("goal", {String(<<"g">>)}),
     c \in {<<>>, <<<<"c">>, <<"d">>>>},
     gl \in {<<>>, <<[term |-> <<"t">>, definition |-> <<"x">>]>>},
     d \in {<<>>, <<[text |-> <<"y">>]>>}}
  \cup {Object([goal |-> String(<<"g">>)]), Object(NoFields)}
PromptRequests ==
  {Object([mode |-> String(<<m>>), userPrompt |-> String(<<"u">>), context |-> c] @@ b) :
     m \in {VALID_MODES[k] : k \in DOMAIN VALID_MODES}, c \in PromptContexts, b \in Optional("brain", PromptBrains)}

InitPrompt ==
  /\ SessionInit
  /\ ApiInit
  /\ request \in PromptRequests
  /\ credential = TRUE
  /\ phase = "Received"
  /\ response = NoResponse
  /\ providerCalls = 0
  /\ provider = [state |-> "idle"]
  /\ timeoutTimer = "none"
  /\ elapsed = 0
  /\ method = "POST"

NextPrompt ==
  \/ Validate
  \/ Dispatch
  \/ \E outcome \in {Reply(<<TextBlock(<<"r">>)>>), Failure(Number(429))} :
       ProviderSettles(outcome)
  \/ TimeoutFires
  \/ Wait

SpecPrompt == InitPrompt /\ [][NextPrompt]_vars

\* the AI route called with each method it exports a handler for
Methods == {"POST", "GET", "PUT", "DELETE"}

InitMethods ==
  /\ SessionInit
  /\ ApiInit
  /\ method \in Methods
  /\ request \in {b \in Bodies : b.type = "object" => Get(b, "brain") \in {Undefined, String(<<"x">>)}}
                 \cup {TestPayload("critique")}
  /\ credential \in BOOLEAN
  /\ phase = "Received"
  /\ response = NoResponse
  /\ providerCalls = 0
  /\ provider = [state |-> "idle"]
  /\ timeoutTimer = "none"
  /\ elapsed = 0

NextMethods ==
  \/ MethodNotAllowed
  \/ Validate
  \/ Dispatch
  \/ \E outcome \in Outcomes : ProviderSettles(outcome)
  \/ TimeoutFires
  \/ Wait

SpecMethods == InitMethods /\ [][NextMethods]_vars

----------------------------------------------------------------------------
(* Context extraction (contextExtractor.ts).  A node of the document is a  *)
(* record with its type, the level of its attrs (0 for none), its content  *)
(* and its text; the same record stands for the node in editor.state.doc   *)
(* and in editor.getJSON().  A text is a sequence of characters.           *)

Node(type, level, content, text) ==
  [type |-> type, level |-> level, content |-> content, text |-> text]
TextNode(text) == Node("text", 0, <<>>, text)

\* node.isText, node.isBlock, node.isTextblock, node.type.spec.code
IsText(node) == node.type = "text"
IsBlock(node) == node.type \in {"paragraph", "heading", "codeBlock", "blockquote"}
IsTextblock(node) == node.type \in {"paragraph", "heading", "codeBlock"}
IsCode(node) == node.type = "codeBlock"

\* node.nodeSize and fragment.size
RECURSIVE NodeSize(_), ContentSize(_)
NodeSize(node) == IF IsText(node) THEN Len(node.text) ELSE 2 + ContentSize(node.content)
ContentSize(nodes) ==
  IF nodes = <<>> THEN 0 ELSE NodeSize(nodes[1]) + ContentSize(Tail(nodes))

\* node.textContent
RECURSIVE TextContent(_), TextContents(_)
TextContent(node) == IF IsText(node) THEN node.text ELSE TextContents(node.content)
TextContents(nodes) ==
  IF nodes = <<>> THEN <<>> ELSE TextContent(nodes[1]) \o TextContents(Tail(nodes))

\* the nodes doc.descendants calls back with, in order, each with its
\* position; nodes is the content of the parent, pos where it starts
RECURSIVE Descendants(_, _)
Descendants(nodes, pos) ==
  IF nodes = <<>> THEN <<>>
  ELSE <<[node |-> nodes[1], pos |-> pos]>>
       \o (IF IsText(nodes[1]) THEN <<>> ELSE Descendants(nodes[1].content, pos + 1))
       \o Descendants(Tail(nodes), pos + NodeSize(nodes[1]))

\* text.slice(start, end)
Slice(text, start, end) ==
  SubSeq(text, start + 1, IF end < Len(text) THEN end ELSE Len(text))

\* doc.textBetween(from, to, separator): the text of the text nodes
\* between the two positions, with the separator before every text block
\* but the first
RECURSIVE TextOfNodes(_, _, _, _, _)
TextOfNodes(visited, from, to, separator, first) ==
  IF visited = <<>> THEN <<>>
  ELSE LET node == visited[1].node
           pos == visited[1].pos
           start == IF from > pos THEN from - pos ELSE 0
           textblock == IsBlock(node) /\ IsTextblock(node)
       IN (IF textblock /\ ~ first THEN <<separator>> ELSE <<>>)
          \o (IF IsText(node) THEN Slice(node.text, start, to - pos) ELSE <<>>)
          \o TextOfNodes(Tail(visited), from, to, separator, first /\ ~ textblock)

TextBetween(content, from, to, separator) ==
  TextOfNodes(SelectSeq(Descendants(content, 0),
                        LAMBDA d : d.pos + NodeSize(d.node) > from /\ d.pos < to),
              from, to, separator, TRUE)

\* the editor: its document, its selection, and the members that raise
\* when they are read or called
Editor(content, from, to, raises) ==
  [type |-> "editor", content |-> content, from |-> from, to |-> to, raises |-> raises]

\* getSelectedText
GetSelectedText(ed) ==
  IF ed = NoEditor THEN <<>>
  ELSE IF "state" \in ed.raises THEN <<>>
  ELSE IF ed.from = ed.to THEN <<>>
  ELSE Trim(TextBetween(ed.content, ed.from, ed.to, "\n"))

\* extractTextFromNode
RECURSIVE ExtractTextFromNode(_), ExtractTextFromNodes(_)
ExtractTextFromNode(node) ==
  IF node.type = "text" /\ node.text # <<>> THEN node.text
  ELSE ExtractTextFromNodes(node.content)
ExtractTextFromNodes(nodes) ==
  IF nodes = <<>> THEN <<>>
  ELSE ExtractTextFromNode(nodes[1]) \o ExtractTextFromNodes(Tail(nodes))

\* "#".repeat(level)
RECURSIVE Repeat(_, _)
Repeat(ch, n) == IF n = 0 THEN <<>> ELSE <<ch>> \o Repeat(ch, n - 1)

MinLevel == 1
MaxLevel == 3

\* variant of traverse that looks at the children of the document only
RECURSIVE TraverseTop(_), TraverseTopAll(_)
TraverseTop(node) ==
  IF node.type = "heading" /\ node.level # 0 /\ node.level >= MinLevel
       /\ node.level <= MaxLevel /\ ExtractTextFromNode(node) # <<>>
    THEN <<Repeat("#", node.level) \o <<" ">> \o ExtractTextFromNode(node)>>
  ELSE <<>>
TraverseTopAll(nodes) ==
  IF nodes = <<>> THEN <<>> ELSE TraverseTop(nodes[1]) \o TraverseTopAll(Tail(nodes))

\* traverse of getOutlineFromJSON: the lines pushed for a node and the
\* nodes below it
RECURSIVE Traverse(_), TraverseAll(_)
Traverse(node) ==
  (IF node.type = "heading" /\ node.level # 0 /\ node.level >= MinLevel
        /\ node.level <= MaxLevel /\ ExtractTextFromNode(node) # <<>>
     THEN <<Repeat("#", node.level) \o <<" ">> \o ExtractTextFromNode(node)>>
   ELSE <<>>)
  \o TraverseAll(node.content)
TraverseAll(nodes) ==
  IF nodes = <<>> THEN <<>> ELSE Traverse(nodes[1]) \o TraverseAll(Tail(nodes))

\* variant of getOutlineFromJSON that reads the top level only
GetOutlineFromJSONTop(json) ==
  IF json = Null \/ json.content = <<>> THEN <<>>
  ELSE Join(TraverseTopAll(json.content), "\n")

\* getOutlineFromJSON; json is null or the document node
GetOutlineFromJSON(json) ==
  IF json = Null \/ json.content = <<>> THEN <<>>
  ELSE Join(Traverse(json), "\n")

\* the blocks getLocalContext collects
Blocks(content) ==
  LET found == SelectSeq(Descendants(content, 0),
                         LAMBDA d : /\ IsBlock(d.node) /\ ~ IsCode(d.node)
                                    /\ Trim(TextContent(d.node)) # <<>>)
  IN [k \in DOMAIN found |->
        [node |-> found[k].node, pos |-> found[k].pos,
         text |-> Trim(TextContent(found[k].node))]]

Window == [before |-> 2, after |-> 1]

\* variant of getLocalContext that takes one block before the current one
GetLocalContextNarrow(ed) ==
  IF ed = NoEditor THEN <<>>
  ELSE IF "state" \in ed.raises THEN <<>>
  ELSE
    LET blocks == Blocks(ed.content)
        holding == {i \in DOMAIN blocks :
                      /\ ed.from >= blocks[i].pos
                      /\ ed.from <= blocks[i].pos + NodeSize(blocks[i].node)}
        currentBlockIndex == IF holding = {} THEN 1 ELSE Min(holding)
        startIndex == IF currentBlockIndex - 1 > 1 THEN currentBlockIndex - 1 ELSE 1
        endIndex == IF currentBlockIndex + Window.after < Len(blocks)
                      THEN currentBlockIndex + Window.after ELSE Len(blocks)
    IN IF blocks = <<>> THEN <<>>
       ELSE Join([k \in 1..(endIndex - startIndex + 1) |-> blocks[startIndex + k - 1].text],
                 "\n\n")

\* getLocalContext (indices from 1)
GetLocalContext(ed) ==
  IF ed = NoEditor THEN <<>>
  ELSE IF "state" \in ed.raises THEN <<>>
  ELSE
    LET blocks == Blocks(ed.content)
        holding == {i \in DOMAIN blocks :
                      /\ ed.from >= blocks[i].pos
                      /\ ed.from <= blocks[i].pos + NodeSize(blocks[i].node)}
        currentBlockIndex == IF holding = {} THEN 1 ELSE Min(holding)
        startIndex == IF currentBlockIndex - Window.before > 1
                        THEN currentBlockIndex - Window.before ELSE 1
        endIndex == IF currentBlockIndex + Window.after < Len(blocks)
                      THEN currentBlockIndex + Window.after ELSE Len(blocks)
    IN IF blocks = <<>> THEN <<>>
       ELSE Join([k \in 1..(endIndex - startIndex + 1) |-> blocks[startIndex + k - 1].text],
                 "\n\n")

\* getFullDocText; editor.getText() separates the text blocks by a blank line
GetFullDocText(ed) ==
  IF ed = NoEditor THEN <<>>
  ELSE IF "getText" \in ed.raises THEN <<>>
  ELSE TextBetween(ed.content, 0, ContentSize(ed.content), "\n\n")

\* editor.getJSON()
GetJSON(ed) ==
  IF "getJSON" \in ed.raises THEN Throw
  ELSE Return(Node("doc", 0, ed.content, <<>>))

EmptyPack == [selectedText |-> <<>>, localContext |-> <<>>, outline |-> <<>>]

\* opts?.includeFullDoc
IncludeFullDoc(options) == options.type = "object" /\ options.includeFullDoc

\* variant of buildContextPack that adds the full text whatever opts says
BuildContextPackFull(ed, options) ==
  IF ed = NoEditor THEN EmptyPack
  ELSE IF GetJSON(ed).threw THEN EmptyPack
  ELSE
    LET pack == [selectedText |-> GetSelectedText(ed),
                 localContext |-> GetLocalContext(ed),
                 outline |-> GetOutlineFromJSON(GetJSON(ed).value)]
    IN pack @@ [fullDocText |-> GetFullDocText(ed)]

\* buildContextPack; an exception of getJSON lands in its catch
BuildContextPack(ed, options) ==
  IF ed = NoEditor THEN EmptyPack
  ELSE IF GetJSON(ed).threw THEN EmptyPack
  ELSE
    LET pack == [selectedText |-> GetSelectedText(ed),
                 localContext |-> GetLocalContext(ed),
                 outline |-> GetOutlineFromJSON(GetJSON(ed).value)]
    IN IF IncludeFullDoc(options) THEN pack @@ [fullDocText |-> GetFullDocText(ed)]
       ELSE pack

\* a caller builds the context pack of the editor
CallBuildContextPack ==
  /\ contextPack = NoPack
  /\ contextPack' = BuildContextPack(editor, opts)
  /\ UNCHANGED <<editor, opts, call>>
  /\ UNCHANGED <<now, commentData, panelThreads, commentCount, peerDoc, routeVars>>
  /\ UNCHANGED <<threads, nextId, acts>>
  /\ UNCHANGED sessionVars

\* the editors the extractors are applied to.  The k-th block of a
\* document carries the digit k as its text.
MaxBlocks == 4
MaxHeadings == 3
Digit(k) == <<"1", "2", "3", "4", "5">>[k]
Paragraph(text) == Node("paragraph", 0, <<TextNode(text)>>, <<>>)
Heading(level, text) == Node("heading", level, <<TextNode(text)>>, <<>>)

LocalKinds == {"paragraph", "padded", "empty", "codeBlock", "blockquote"}
LocalBlock(kind, k) ==
  CASE kind = "paragraph" -> Paragraph(<<Digit(k)>>)
    [] kind = "padded" -> Paragraph(<<" ", Digit(k)>>)
    [] kind = "empty" -> Node("paragraph", 0, <<>>, <<>>)
    [] kind = "codeBlock" -> Node("codeBlock", 0, <<TextNode(<<Digit(k)>>)>>, <<>>)
    [] kind = "blockquote" -> Node("blockquote", 0, <<Paragraph(<<Digit(k)>>)>>, <<>>)

OutlineKinds == {"h1", "h2", "h3", "h4", "hEmpty", "hTwo", "paragraph", "quoted"}
OutlineBlock(kind, k) ==
  CASE kind = "h1" -> Heading(1, <<Digit(k)>>)
    [] kind = "h2" -> Heading(2, <<Digit(k)>>)
    [] kind = "h3" -> Heading(3, <<Digit(k)>>)
    [] kind = "h4" -> Heading(4, <<Digit(k)>>)
    [] kind = "hEmpty" -> Node("heading", 2, <<>>, <<>>)
    [] kind = "hTwo" ->
         Node("heading", 1, <<TextNode(<<Digit(k)>>), TextNode(<<"x">>)>>, <<>>)
    [] kind = "paragraph" -> Paragraph(<<Digit(k)>>)
    [] kind = "quoted" -> Node("blockquote", 0, <<Heading(3, <<Digit(k)>>)>>, <<>>)

LocalDocs ==
  UNION {{[k \in 1..n |-> LocalBlock(kinds[k], k)] : kinds \in [1..n -> LocalKinds]} :
           n \in 0..MaxBlocks}
OutlineDocs ==
  UNION {{[k \in 1..n |-> OutlineBlock(kinds[k], k)] : kinds \in [1..n -> OutlineKinds]} :
           n \in 0..MaxHeadings}
FaultDocs == {<<Paragraph(<<"1">>)>>, <<Heading(1, <<"1">>), Paragraph(<<" ", "2">>)>>}

\* the selections of a document: a text selection from one place inside a
\* text block to another, a node selection of a block, the whole document
Range(seq) == {seq[k] : k \in DOMAIN seq}
InlinePositions(content) ==
  UNION {(d.pos + 1)..(d.pos + NodeSize(d.node) - 1) :
           d \in {e \in Range(Descendants(content, 0)) : IsTextblock(e.node)}}
Selections(content) ==
  {[from |-> p, to |-> q] : p, q \in InlinePositions(content)}
  \cup {[from |-> d.pos, to |-> d.pos + NodeSize(d.node)] :
          d \in {e \in Range(Descendants(content, 0)) : IsBlock(e.node)}}
  \cup {[from |-> 0, to |-> ContentSize(content)]}
EditorsOf(docs, raises) ==
  UNION {{Editor(content, s.from, s.to, raises) :
            s \in {t \in Selections(content) : t.from <= t.to}} : content \in docs}

Faults == {"state", "getJSON", "getText"}
Options == {NoOptions, [type |-> "object", includeFullDoc |-> TRUE],
            [type |-> "object", includeFullDoc |-> FALSE]}

InitContext ==
  /\ SessionInit
  /\ now = 0
  /\ commentData = NoData
  /\ panelThreads = <<>>
  /\ commentCount = 0
  /\ peerDoc = <<>>
  /\ RouteIdle
  /\ \/ /\ editor \in EditorsOf(LocalDocs, {})
        /\ opts = NoOptions
     \/ /\ editor \in {Editor(content, 0, ContentSize(content), {}) : content \in OutlineDocs}
        /\ opts = NoOptions
     \/ /\ editor \in {NoEditor} \cup UNION {EditorsOf(FaultDocs, raises) : raises \in SUBSET Faults}
        /\ opts \in Options
  /\ contextPack = NoPack
  /\ call = NoCall

NextContext == CallBuildContextPack

SpecContext == InitContext /\ [][NextContext]_vars

\* the two stores called on collections that hold records of two
\* documents, some of them written by an earlier session or in the old
\* comment format
EarlierItems ==
  {CreateComment(<<>>, EarlierId(1), EarlierId(2), "A", "c", <<"a">>, 0)[1],
   CreateAIThread(<<>>, EarlierId(3), "B", <<"a">>, 0)[1],
   OldComment(EarlierId(4), "B", "c", 0),
   OldComment(EarlierId(5), "A", "", 0)}
StoredThreads ==
  {<<>>} \cup {<<x>> : x \in EarlierItems}
  \cup {pair \in EarlierItems \X EarlierItems : pair[1] # pair[2]}
FilledBrain(goal) ==
  [goal |-> goal, constraints |-> <<"k">>,
   glossary |-> <<[term |-> "t", definition |-> "x"]>>,
   decisions |-> <<[text |-> "y", createdAt |-> 0]>>]
StoredBrains ==
  {NoBrains, "A" :> FilledBrain("g1"), "B" :> DefaultBrain,
   ("A" :> FilledBrain("g1")) @@ ("B" :> FilledBrain("g2"))}
BrainUpdates == {[goal |-> "g2"], [constraints |-> <<>>, decisions |-> <<>>]}

InitCollections ==
  /\ PageInit
  /\ ApiInit
  /\ RouteIdle
  /\ threads \in StoredThreads
  /\ brains \in StoredBrains
  /\ acts = MaxCalls - 2

NextCollections ==
  \/ \E d \in Docs, c \in Contents, h \in Snapshots : CallCreateComment(d, c, h)
  \/ \E d \in Docs, h \in Snapshots : CallCreateAIThread(d, h)
  \/ \E t \in LaterArgs, c \in Contents : CallAddReplyToThread(t, c)
  \/ \E t \in LaterArgs, c \in Contents : CallAddUserPromptToAIThread(t, c)
  \/ \E t \in LaterArgs, c \in Contents, st \in Statuses :
       CallAddAIMessageToThread(t, c, st)
  \/ \E t \in LaterArgs : \E m \in MessageArgs(t), c \in Contents :
       CallUpdateMessage(t, m, c)
  \/ \E t \in LaterArgs : \E m \in MessageArgs(t), c \in Contents, st \in Statuses :
       CallUpdateAIMessage(t, m, c, st)
  \/ \E t \in LaterArgs : \E m \in MessageArgs(t) : CallDeleteMessage(t, m)
  \/ \E t \in LaterArgs : CallToggleResolveThread(t)
  \/ \E t \in LaterArgs : CallDeleteComment(t)
  \/ \E d \in Docs : CallDeleteDocumentComments(d)
  \/ \E t \in LaterArgs : CallUpdateAIThreadMode(t, "critique")
  \/ \E p \in Docs, b \in {DefaultBrain, FilledBrain("g2")} : CallSaveBrain(p, b)
  \/ \E p \in Docs, u \in BrainUpdates : CallUpdateBrain(p, u)
  \/ \E p \in Docs : CallDeleteBrain(p)
  \/ \E p \in Docs : CallAddDecision(p, "y")
  \/ \E p \in Docs, i \in 0..1 : CallRemoveDecision(p, i)
  \/ \E p \in Docs : CallAddGlossaryTerm(p, "t", "x")
  \/ \E p \in Docs, i \in 0..1 : CallRemoveGlossaryTerm(p, i)
  \/ \E p \in Docs : CallAddConstraint(p, "k")
  \/ \E p \in Docs, i \in 0..1 : CallRemoveConstraint(p, i)

SpecCollections == InitCollections /\ [][NextCollections]_vars

----------------------------------------------------------------------------
(* Properties *)

StoredIds == ThreadIds(GetDocumentComments(threads, documentId))

\* the step is a run of the thread-cleanup timer
CleanupRan ==
  /\ acts' = acts
  /\ Due(cleanupTimers) # {}
  /\ cleanupTimers' # cleanupTimers

\* the step is a content write of the save timer
ContentWritten ==
  /\ acts' = acts
  /\ Due(saveTimers) # {}
  /\ saveTimers' # saveTimers

\* C1: after every content change the initialized editor handles, and the
\* mark cleanup it runs in the same cycle, every comment mark of the content
\* that carries an id carries the id of a stored thread of the document.
C1_NoOrphanMarks ==
  [][(isInitialized /\ doc' # doc) =>
       \A i \in DOMAIN doc' :
         CarriesId(doc'[i]) =>
           doc'[i].mark \in ThreadIds(GetDocumentComments(threads', documentId))]_vars

\* a handled change whose cleanup removed a mark and kept the mark of a
\* stored thread
C1_Witness ==
  /\ isInitialized
  /\ sinceChange = 0
  /\ change.stripped
  /\ \E i \in DOMAIN doc : CarriesId(doc[i]) /\ doc[i].mark \in StoredIds

\* C2: over the editor's debounced cleanup and the panel's refresh together,
\* a thread is removed as an orphan at most once, with one deletion
\* notification for each removal, and stays out of the store; and when the
\* thread-cleanup timer runs, every non-AI thread of the document that no
\* mark carries has been removed and notified exactly once afterwards.
C2_NoOrphanThreads ==
  [][/\ \A id \in DOMAIN removal :
          /\ removal'[id].removed <= 1
          /\ removal'[id].notified = removal'[id].removed
          /\ removal'[id].removed = 1 => id \notin ThreadIds(threads')
     /\ CleanupRan =>
          \A i \in DOMAIN threads :
            (/\ threads[i].documentId = documentId
             /\ ~ threads[i].isAIThread
             /\ threads[i].id \notin ActiveCommentIds(doc))
              => /\ threads[i].id \notin ThreadIds(threads')
                 /\ removal'[threads[i].id].removed = 1
                 /\ removal'[threads[i].id].notified = 1]_vars

\* the editor's debounced cleanup removed a thread
C2_Witness ==
  \E id \in DOMAIN removal :
    /\ removal[id].by = "editor"
    /\ removal[id].removed = 1
    /\ removal[id].notified = 1
    /\ id \notin ThreadIds(threads)

\* C3: no reconciliation pass (the editor's thread cleanup, the panel's
\* refresh) takes an AI thread out of the store.
C3_AIThreadsExempt ==
  [][\A i \in DOMAIN threads :
       (threads[i].isAIThread /\ threads[i].id \notin ThreadIds(threads'))
         => removal'[threads[i].id] = removal[threads[i].id]]_vars

\* C4: the thread cleanup followed by the mark cleanup, run again on the
\* content and the store the first run left, deletes no thread, notifies
\* for none, dispatches no transaction and leaves the editor and the store
\* as they were; so does the mark cleanup run twice on its own.
C4_Idempotent ==
  LET r1 == CleanupOrphanedComments(Ed, threads, documentId)
      r2 == CleanupOrphanedComments(r1.ed, r1.threads, documentId)
      m1 == CleanupOrphanedMarks(Ed, threads, documentId)
      m2 == CleanupOrphanedMarks(m1, threads, documentId)
  IN /\ r2.deleted = {}
     /\ r2.threads = r1.threads
     /\ ~ Dispatches(r1.ed.doc, r1.threads, documentId)
     /\ r2.ed = r1.ed
     /\ ~ Dispatches(m1.doc, threads, documentId)
     /\ m2 = m1

\* a state in which the first run deletes a thread and removes a mark
C4_Witness ==
  LET r1 == CleanupOrphanedComments(Ed, threads, documentId)
  IN /\ r1.deleted # {}
     /\ Dispatches(doc, r1.threads, documentId)
     /\ r1.ed.doc # doc

\* C5: a user's thread is removed as an orphan only when CleanupDelay has passed
\* since the last content change.
C5_DeletionDebounced ==
  [][\A i \in DOMAIN threads :
       (/\ ~ threads[i].isAIThread
        /\ removal'[threads[i].id].removed > removal[threads[i].id].removed)
         => sinceChange >= CleanupDelay]_vars

\* C6: each debounced stream has at most one pending timer.
C6_SingleSlot ==
  /\ Cardinality(saveTimers) <= 1
  /\ Cardinality(cleanupTimers) <= 1
  /\ Cardinality(titleTimers) <= 1
  /\ Cardinality(goalTimers) <= 1

\* every stream has its timer pending, the content stream after a change
\* that superseded a pending timer
C6_Witness ==
  /\ change.burst >= 2
  /\ Cardinality(saveTimers) = 1
  /\ Cardinality(cleanupTimers) = 1
  /\ \E t \in titleTimers : t.remaining < TitleDelay /\ t.payload.title = "t2"
  /\ \E t \in goalTimers : t.remaining < GoalDelay /\ t.payload.goal = "g2"

\* C7: once the session is disposed, nothing writes the document's content,
\* its title, the Project Brain or the thread store.
C7_NoWriteAfterTeardown ==
  [][~ editorMounted =>
       /\ storedContent' = storedContent
       /\ storedTitle' = storedTitle
       /\ storedBrain' = storedBrain
       /\ threads' = threads]_vars

\* C8: a content write happens no sooner than SaveDelay after the last
\* content change, is the first write since that change and stores the
\* content serialized at that change; and once more than SaveDelay has
\* passed since the last change of a session still mounted, exactly one
\* write has followed it.
C8_Coalescing ==
  [][/\ ContentWritten =>
          /\ sinceChange >= SaveDelay
          /\ change.writes = 0
          /\ change'.writes = 1
          /\ storedContent' = change.content
     /\ (change'.any /\ editorMounted' /\ sinceChange' > SaveDelay) =>
          /\ change'.writes = 1
          /\ storedContent' = change'.content]_vars

\* one write followed a burst of changes and stored the last content
C8_Witness ==
  /\ change.burst >= 2
  /\ change.writes = 1
  /\ storedContent = change.content
  /\ sinceChange >= SaveDelay

\* C9: the content of every pending save, and the content every save
\* writes, has no mark whose id was absent from the store at the change
\* that scheduled the save.
C9_CleanupPrecedesPersist ==
  [][/\ \A t \in saveTimers' :
          ActiveCommentIds(t.payload.content) \subseteq change'.valid
     /\ ContentWritten =>
          ActiveCommentIds(storedContent') \subseteq change.valid]_vars

\* a save wrote the content of a change whose cleanup removed a mark
C9_Witness ==
  /\ change.stripped
  /\ change.writes = 1
  /\ storedContent = change.content

\* C10: every content change the initialized editor is notified of leaves
\* its persist scheduled, whether or not the reconciliation raised.
C10_FailuresContained ==
  (change.any /\ sinceChange = 0) =>
    \E t \in saveTimers : t.remaining = SaveDelay /\ t.payload.content = doc

\* the ids of the messages of a thread
MessageIds(t) == {t.messages[k].id : k \in DOMAIN t.messages}

\* the index of the message with id in msgs
IndexOf(msgs, id) == Min({k \in DOMAIN msgs : msgs[k].id = id})

\* C11: no step appends a message to a thread that is resolved.
C11_ResolvedAcceptsNoMessages ==
  [][\A i \in DOMAIN threads : \A j \in DOMAIN threads' :
       (threads[i].resolved /\ threads'[j].id = threads[i].id)
         => MessageIds(threads'[j]) \subseteq MessageIds(threads[i])]_vars

\* C12: in every step and for every thread that stays in the store, the
\* messages that survive keep their relative order and their id and
\* createdAt, every new message comes after all of them, and a message whose
\* content or updatedAt changed is at the index it had.
C12_MessageOrder ==
  [][\A i \in DOMAIN threads : \A j \in DOMAIN threads' :
       threads'[j].id = threads[i].id =>
         LET old == threads[i].messages
             new == threads'[j].messages
             kept == {a \in DOMAIN new : new[a].id \in MessageIds(threads[i])}
         IN /\ \A a \in kept : \A b \in kept :
                 a < b => IndexOf(old, new[a].id) < IndexOf(old, new[b].id)
            /\ \A a \in DOMAIN new \ kept : \A b \in kept : b < a
            /\ \A a \in kept :
                 LET k == IndexOf(old, new[a].id)
                 IN /\ new[a].createdAt = old[k].createdAt
                    /\ new[a].author = old[k].author
                    /\ (new[a].content # old[k].content
                          \/ new[a].updatedAt # old[k].updatedAt) => a = k]_vars

\* a thread whose first message was edited in place after a later message
\* was appended
C12_Witness ==
  \E i \in DOMAIN threads :
    LET msgs == threads[i].messages
    IN /\ Len(msgs) >= 2
       /\ msgs[1].updatedAt > msgs[1].createdAt
       /\ msgs[1].updatedAt >= msgs[2].createdAt
       /\ msgs[1].id < msgs[2].id
       /\ msgs[1].content = "d"

\* C13: createComment(D, content, highlightedText) on a store without
\* threads of D, then getDocumentComments(D): exactly one thread, unresolved,
\* whose only message has the content and whose highlightedText is the
\* snapshot; no thread of another document is returned, and the threads of
\* the other documents are as they were.
C13_ThreadRoundTrip ==
  [][\A d \in Docs, c \in Contents, h \in Snapshots :
       (/\ \A i \in DOMAIN threads : threads[i].documentId # d
        /\ nextId' = nextId + 2
        /\ threads' = CreateComment(threads, nextId, nextId + 1, d, c, h, now))
         => LET got == GetDocumentComments(threads', d)
            IN /\ Len(got) = 1
               /\ ~ got[1].resolved
               /\ Len(got[1].messages) = 1
               /\ got[1].messages[1].content = c
               /\ got[1].highlightedText = h
               /\ got[1].documentId = d
               /\ SelectSeq(threads', LAMBDA t : t.documentId # d) = threads]_vars

\* the store after createComment on a document that had no thread, next to
\* a thread of another document
C13_Witness ==
  LET got == GetDocumentComments(threads, "A")
  IN /\ Len(got) = 1
     /\ Len(got[1].messages) = 1
     /\ got[1].messages[1].content = "d"
     /\ got[1].highlightedText = <<"a", "b">>
     /\ Len(threads) = 2
     /\ threads[1].documentId = "B"
     /\ threads[2].id = got[1].id
     /\ threads[2].updatedAt = threads[2].createdAt

\* the characters of d that carry id, in document order
MarkedText(d, id) ==
  LET cells == SelectSeq(d, LAMBDA cell : cell.mark = id)
  IN [k \in DOMAIN cells |-> cells[k].ch]

\* C14: getAllCommentData has an entry for exactly the ids that a mark of
\* the content carries; the entry's text is the text of all the spans
\* carrying the id in document order, its position the offset of the first.
C14_PositionResolution ==
  acts = 1 =>
    /\ DOMAIN commentData = {doc[i].mark : i \in {j \in DOMAIN doc : CarriesId(doc[j])}}
    /\ \A id \in DOMAIN commentData :
         /\ commentData[id].text = MarkedText(doc, id)
         /\ commentData[id].position = Min({i \in DOMAIN doc : doc[i].mark = id})

\* the threads in the order the panel lists them
Listed == SortedThreads(panelThreads, commentData)

Outcomes3 == {"Completed", "TimedOut", "Failed"}

\* C16: the phases of a request come in the order Received, Validated,
\* Dispatched, then one of Completed, TimedOut, Failed, which is final.  The
\* provider is called once at most, in the step from Validated to
\* Dispatched, for a valid request with the API key set.  A response, once
\* returned, never changes; while the request is dispatched the first of
\* provider settlement and timer decides the response, and the other event
\* changes nothing of it.
C16_RequestStateMachine ==
  /\ [](/\ phase = "Dispatched" => response = NoResponse /\ providerCalls = 1
        /\ phase \in Outcomes3 => response # NoResponse /\ providerCalls = 1
        /\ providerCalls <= 1)
  /\ [][/\ phase' = "Validated" => phase \in {"Received", "Validated"}
        /\ phase' = "Dispatched" => phase \in {"Validated", "Dispatched"}
        /\ phase' \in Outcomes3 => phase \in {"Dispatched", phase'}
        /\ phase \in Outcomes3 => phase' = phase
        /\ providerCalls' # providerCalls =>
             /\ phase = "Validated" /\ phase' = "Dispatched"
             /\ providerCalls = 0 /\ providerCalls' = 1
             /\ credential
             /\ request # NotJSON /\ ValidateRequest(request) = NoError
        /\ response # NoResponse => response' = response
        /\ (phase = "Dispatched" /\ provider' # provider) =>
             /\ phase' \in {"Completed", "Failed"}
             /\ response' # NoResponse
             /\ response'.payload # [message |-> TimeoutMessage]
        /\ (phase = "Dispatched" /\ timeoutTimer' = "fired") =>
             /\ phase' = "TimedOut"
             /\ response'.payload = [message |-> TimeoutMessage]
       ]_vars

\* the provider replied after the timer had decided: the response is the
\* timeout message
C16_Witness ==
  /\ phase = "TimedOut"
  /\ provider.state = "settled"
  /\ Succeeded(provider.outcome)
  /\ providerCalls = 1
  /\ response.payload = [message |-> TimeoutMessage]

\* the fields in the order validateRequest is to check them
CheckOrder == <<"mode", "userPrompt", "context", "context.selectedText", "brain">>

NonBlankString(v) == v.type = "string" /\ \E k \in DOMAIN v.value : v.value[k] # " "
ListOrAbsent(v) == v.type \in {"undefined", "array"}

\* the request violates what is required of the field
Violates(body, field) ==
  CASE field = "mode" ->
         Get(body, "mode") \notin {String(<<"critique">>), String(<<"synthesize">>)}
    [] field = "userPrompt" -> ~ NonBlankString(Get(body, "userPrompt"))
    [] field = "context" -> Get(body, "context").type # "object"
    [] field = "context.selectedText" ->
         ~ NonBlankString(Get(Get(body, "context"), "selectedText"))
    [] field = "brain" ->
         LET b == Get(body, "brain")
         IN /\ b # Undefined
            /\ ~ (/\ b.type = "object"
                  /\ Get(b, "goal").type \in {"undefined", "string"}
                  /\ ListOrAbsent(Get(b, "constraints"))
                  /\ ListOrAbsent(Get(b, "glossary"))
                  /\ ListOrAbsent(Get(b, "decisions")))

Violated(body) == {k \in DOMAIN CheckOrder : Violates(body, CheckOrder[k])}

\* the field an error text names
NamedField(error) ==
  LET named == {k \in DOMAIN CheckOrder :
                  \E i \in DOMAIN error :
                    \/ error[i] = CheckOrder[k]
                    \/ CheckOrder[k] = "brain"
                         /\ error[i] \in {"brain.goal", "brain.constraints",
                                          "brain.glossary", "brain.decisions"}}
  IN IF named = {} THEN 0 ELSE Min(named)

\* C17: a body that is not JSON, a body that is not an object and a request
\* that violates what is required of a field are answered, with or without
\* API key, with status 400 and a payload holding only error, without a
\* call of the provider; the error names the first field, in the order
\* mode, userPrompt, context, context.selectedText, brain, that is
\* violated.  So a request that omits userPrompt, its mode being valid, is
\* answered with an error that names userPrompt.
C17_ValidationRejects ==
  phase # "Received" =>
    LET isObject == request # NotJSON /\ request.type = "object"
    IN /\ (~ isObject \/ Violated(request) # {}) =>
            /\ phase = "Rejected"
            /\ response.status = 400
            /\ DOMAIN response.payload = {"error"}
            /\ providerCalls = 0
       /\ (isObject /\ Violated(request) # {}) =>
            NamedField(response.payload.error) = Min(Violated(request))
       /\ (isObject /\ Get(request, "userPrompt") = Undefined
             /\ ~ Violates(request, "mode")) =>
            \E i \in DOMAIN response.payload.error :
              response.payload.error[i] = "userPrompt"

\* without API key, a request that omits userPrompt and context has been
\* rejected for userPrompt
C17_Witness ==
  /\ phase = "Rejected"
  /\ ~ credential
  /\ request.type = "object"
  /\ Get(request, "userPrompt") = Undefined
  /\ Get(request, "context") = Undefined
  /\ response = [status |-> 400,
                 payload |-> [error |-> <<"Missing required field: ", "userPrompt">>]]
  /\ providerCalls = 0

\* C18: the timer fires AI_TIMEOUT_MS after it was set and not later.  When
\* it fires while the provider's call has not settled, the request is
\* answered in that step with status 200 and a payload that holds only the
\* timeout message; the call stays in flight and is not repeated.
C18_Timeout ==
  /\ [](/\ timeoutTimer = "fired" => elapsed = AI_TIMEOUT_MS
        /\ elapsed <= AI_TIMEOUT_MS
        /\ (elapsed = AI_TIMEOUT_MS /\ timeoutTimer = "fired" /\ phase = "TimedOut")
             => response = [status |-> 200, payload |-> [message |-> TimeoutMessage]])
  /\ [][(timeoutTimer = "armed" /\ timeoutTimer' = "fired" /\ provider.state = "pending") =>
          /\ elapsed = AI_TIMEOUT_MS
          /\ response = NoResponse
          /\ response' = [status |-> 200, payload |-> [message |-> TimeoutMessage]]
          /\ provider' = provider
          /\ providerCalls' = providerCalls
       ]_vars

\* the request was answered by the timer while the provider's call is
\* still in flight
C18_Witness ==
  /\ phase = "TimedOut"
  /\ provider.state = "pending"
  /\ timeoutTimer = "fired"
  /\ elapsed = AI_TIMEOUT_MS
  /\ response.status = 200

\* the message the failure of the provider is to be reported with
FailureMessage(outcome) ==
  IF outcome.kind = "error" /\ outcome.status = Number(401) THEN InvalidKeyMessage
  ELSE IF outcome.kind = "error" /\ outcome.status = Number(429) THEN RateLimitMessage
  ELSE FailedMessage

\* C19: when the provider's call fails (an error of status 401, of status
\* 429, of another status or of none, or a reply without text block) before
\* the timer has fired, the request is answered with status 200 and a
\* payload holding only message: the invalid-key message for 401, the
\* rate-limit message for 429, the generic failure message otherwise.
C19_FailureClassification ==
  [][(phase = "Dispatched" /\ provider.state = "pending" /\ provider'.state = "settled"
        /\ ~ Succeeded(provider'.outcome)) =>
       /\ phase' = "Failed"
       /\ response' = [status |-> 200,
                       payload |-> [message |-> FailureMessage(provider'.outcome)]]
    ]_vars

\* the provider refused the API key before the timer fired
C19_Witness ==
  /\ phase = "Failed"
  /\ provider.state = "settled"
  /\ provider.outcome = Failure(Number(401))
  /\ response = [status |-> 200, payload |-> [message |-> InvalidKeyMessage]]

\* C20: every request that passes the validation while the API key is set
\* is answered with status 200, with or without brain and whichever of the
\* brain's fields it carries.
C20_OnlyCredentialIs5xx ==
  (/\ request # NotJSON
   /\ phase \notin {"Idle", "Received"}
   /\ ValidateRequest(request) = NoError
   /\ credential
   /\ response # NoResponse) => response.status = 200

\* C21: without API key a request that passed the validation is answered
\* with status 500 and the configuration message, and the provider is not
\* called.
C21_MissingCredential ==
  (/\ ~ credential
   /\ request # NotJSON
   /\ phase \notin {"Idle", "Received", "Validated"}
   /\ ValidateRequest(request) = NoError) =>
    /\ response = [status |-> 500, payload |-> [message |-> NotConfiguredMessage]]
    /\ providerCalls = 0
    /\ provider.state = "idle"
    /\ timeoutTimer = "none"

\* a valid request with a complete brain has been refused for the key
C21_Witness ==
  /\ ~ credential
  /\ phase = "Unconfigured"
  /\ Get(request, "brain").type = "object"
  /\ ~ BuildMarginEditorPrompt(request).threw
  /\ response.status = 500
  /\ providerCalls = 0

\* the text of the provider's reply, once it has settled
ReplyText == provider.outcome.content[1].text
ModeOf(req) == Get(req, "mode").value

Candidates(text) ==
  <<[found |-> FencedBlock(text).found, text |-> Trim(FencedBlock(text).group)],
    [found |-> FirstBraces(text).found, text |-> FirstBraces(text).group],
    [found |-> TRUE, text |-> Trim(text)]>>

\* the candidate parses to an object with message and proposedText
Succeeds(c) ==
  /\ c.found
  /\ ~ JSONParse(c.text).threw
  /\ ToBoolean(Get(JSONParse(c.text).value, "message"))
  /\ ToBoolean(Get(JSONParse(c.text).value, "proposedText"))

Successes(text) == {k \in 1..3 : Succeeds(Candidates(text)[k])}

Extracted(c) ==
  [message |-> Get(JSONParse(c.text).value, "message").value,
   proposedText |-> Get(JSONParse(c.text).value, "proposedText").value]

C24_Fallback ==
  (phase = "Completed" /\ ModeOf(request) = <<"synthesize">>) =>
    /\ response.status = 200
    /\ Successes(ReplyText) = {} => response.payload = [message |-> ReplyText]
    /\ \A k \in 2..3 :
         (k \in Successes(ReplyText) /\ \A j \in 1..(k - 1) : j \notin Successes(ReplyText))
           => response.payload = Extracted(Candidates(ReplyText)[k])

\* the fenced block holds an object without proposedText: all three
\* candidates fail and the text comes back as message
C24_Witness ==
  /\ phase = "Completed"
  /\ ModeOf(request) = <<"synthesize">>
  /\ ReplyText = FencedJson(ObjectText(<<MsgM>>))
  /\ Candidates(ReplyText)[1].found
  /\ Candidates(ReplyText)[2].found
  /\ Successes(ReplyText) = {}
  /\ response = [status |-> 200, payload |-> [message |-> ReplyText]]

NonEmpty(v) ==
  \/ v.type = "string" /\ v.value # <<>>
  \/ v.type = "array" /\ v.items # <<>>

\* the lines of a section that appears exactly when its input is present
\* and non-empty
Appears(input, lines) == IF NonEmpty(input) THEN lines ELSE <<>>

ClosingInstruction(mode) ==
  IF mode = <<"critique">>
    THEN <<"Provide feedback on the selected text. Be specific and constructive.">>
  ELSE <<"Suggest an improved version of the selected text. Keep the writer's voice and intent.">>

\* the user message the sentence describes for a request
Assembled(req) ==
  LET context == Get(req, "context")
      reqBrain == Get(req, "brain")
      goal == Get(reqBrain, "goal")
      constraints == Get(reqBrain, "constraints")
      glossary == Get(reqBrain, "glossary")
      decisions == Get(reqBrain, "decisions")
      sources == Get(context, "sources")
      brainLines ==
        Appears(goal, <<<<"Goal: ">> \o goal.value>>)
        \o Appears(constraints, <<<<"Constraints: ">> \o Join(constraints.items, ", ")>>)
        \o Appears(glossary,
             <<<<"Glossary:">>>>
             \o [k \in DOMAIN glossary.items |->
                   <<"  - ">> \o glossary.items[k].term \o <<": ">>
                     \o glossary.items[k].definition])
        \o Appears(decisions,
             <<<<"Past decisions:">>>>
             \o [k \in DOMAIN decisions.items |-> <<"  - ">> \o decisions.items[k].text])
  IN << <<"**Mode**: ">> \o Get(req, "mode").value,
        <<"**User's request**: ">> \o Get(req, "userPrompt").value,
        <<>>,
        <<"**Selected text**:">>,
        Get(context, "selectedText").value,
        <<>> >>
     \o Appears(Get(context, "localContext"),
          <<<<"**Context** (surrounding text):">>, Get(context, "localContext").value, <<>>>>)
     \o Appears(Get(context, "outline"),
          <<<<"**Document structure**:">>, Get(context, "outline").value, <<>>>>)
     \o (IF brainLines # <<>> THEN <<<<"**Project Brain**:">>>> \o brainLines \o <<<<>>>>
         ELSE <<>>)
     \o Appears(Get(context, "fullDocText"),
          <<<<"**Full document** (for reference only):">>, Get(context, "fullDocText").value,
            <<>>>>)
     \o Appears(sources,
          <<<<"**Attached sources**:">>>>
          \o [k \in DOMAIN sources.items |->
                <<"- ">> \o sources.items[k].title \o <<": ">> \o sources.items[k].excerpt]
          \o <<<<>>>>)
     \o <<ClosingInstruction(Get(req, "mode").value)>>

\* a brain that carries its three lists
BrainComplete(req) ==
  LET reqBrain == Get(req, "brain")
  IN /\ Get(reqBrain, "constraints").type = "array"
     /\ Get(reqBrain, "glossary").type = "array"
     /\ Get(reqBrain, "decisions").type = "array"

\* C26: the user message built for a validated request is made of the
\* sections mode, user request, selected text, local context, outline,
\* Project Brain (goal, constraints, glossary, decisions), full document,
\* attached sources and closing instruction, in this order; an optional
\* section is there exactly when its input is present and non-empty, and
\* the closing instruction is the one of the request's mode.
C26_PromptAssembly ==
  [][(phase = "Validated" /\ phase' # "Validated") =>
       /\ provider'.state = "pending"
       /\ provider'.prompts.user = Assembled(request)]_vars

\* the same for the requests whose brain carries its three lists
PromptAssemblyWithBrain ==
  [][(phase = "Validated" /\ phase' # "Validated" /\ BrainComplete(request)) =>
       /\ provider'.state = "pending"
       /\ provider'.prompts.user = Assembled(request)]_vars

\* a request with every optional part filled has been handed to the provider
PromptAssemblyWitness ==
  /\ provider.state = "pending"
  /\ Len(provider.prompts.user) = 7 + 3 + 3 + 8 + 3 + 3

\* the top-level nodes of a document that have text, each with its position
TopLevelBlocks(content) ==
  LET RECURSIVE Place(_, _)
      Place(nodes, pos) ==
        IF nodes = <<>> THEN <<>>
        ELSE <<[node |-> nodes[1], pos |-> pos]>>
             \o Place(Tail(nodes), pos + NodeSize(nodes[1]))
  IN SelectSeq(Place(content, 0), LAMBDA b : TextContent(b.node) # <<>>)

\* the texts of block i, of up to two blocks before it and of up to one
\* block after it, joined by blank lines
WindowAround(blocks, i) ==
  LET first == IF i - 2 > 1 THEN i - 2 ELSE 1
      last == IF i + 1 < Len(blocks) THEN i + 1 ELSE Len(blocks)
  IN Join([k \in 1..(last - first + 1) |-> Trim(TextContent(blocks[first + k - 1].node))],
          "\n\n")

\* the sentence about getLocalContext, for an editor and a result
LocalContextWindow(ed, result) ==
  LET blocks == TopLevelBlocks(ed.content)
      containing == {i \in DOMAIN blocks :
                       /\ blocks[i].pos <= ed.from
                       /\ ed.from <= blocks[i].pos + NodeSize(blocks[i].node)}
  IN containing # {} => \E i \in containing : result = WindowAround(blocks, i)

\* C27: the local context is the text of the block that contains the
\* start of the selection, of up to two blocks before it and of up to one
\* block after it, in document order and joined by blank lines, the blocks
\* being the top-level nodes of the document that have text.
C27_LocalContextWindow ==
  (contextPack # NoPack /\ editor # NoEditor /\ editor.raises = {}) =>
    LocalContextWindow(editor, contextPack.localContext)

\* a document of paragraphs only
Flat(content) == \A k \in DOMAIN content : content[k].type = "paragraph"

\* the same for the documents of paragraphs
LocalContextOfParagraphs ==
  (contextPack # NoPack /\ editor # NoEditor /\ editor.raises = {} /\ Flat(editor.content)) =>
    LocalContextWindow(editor, contextPack.localContext)

\* the window has left out a paragraph before and a paragraph after
LocalContextOfParagraphsWitness ==
  /\ contextPack # NoPack
  /\ editor # NoEditor
  /\ Flat(editor.content)
  /\ contextPack.localContext = <<"1", "\n\n", "2">>
  /\ Len(TopLevelBlocks(editor.content)) = 4

\* the headings of level 1 to 3 of a document, in document order
OutlineHeadings(content) ==
  SelectSeq(Descendants(content, 0),
            LAMBDA d : d.node.type = "heading" /\ d.node.level \in 1..3)

OutlineLine(node) == Repeat("#", node.level) \o <<" ">> \o TextContent(node)

\* C28 as stated: the outline has one line for every heading of level 1 to
\* 3, in document order, made of as many # as the level, a space and the
\* heading's text, and no other line.
C28_OutlineEveryHeading ==
  (contextPack # NoPack /\ editor # NoEditor /\ "getJSON" \notin editor.raises) =>
    LET headings == OutlineHeadings(editor.content)
    IN contextPack.outline
         = Join([k \in DOMAIN headings |-> OutlineLine(headings[k].node)], "\n")

\* C28: the outline has one line for every heading of level 1 to 3 that
\* has text, in document order, made of as many # as the level, a space
\* and the heading's text, and no other line.
C28_Outline ==
  (contextPack # NoPack /\ editor # NoEditor /\ "getJSON" \notin editor.raises) =>
    LET headings == SelectSeq(OutlineHeadings(editor.content),
                              LAMBDA d : TextContent(d.node) # <<>>)
    IN contextPack.outline
         = Join([k \in DOMAIN headings |-> OutlineLine(headings[k].node)], "\n")

\* a heading without text, a heading in a quote and a heading of level 4:
\* the outline holds the line of the quoted heading alone
C28_Witness ==
  /\ contextPack # NoPack
  /\ editor # NoEditor
  /\ Len(editor.content) = 3
  /\ editor.content[1] = Node("heading", 2, <<>>, <<>>)
  /\ editor.content[2].type = "blockquote"
  /\ editor.content[3].type = "heading" /\ editor.content[3].level = 4
  /\ contextPack.outline = <<"#", "#", "#", " ", "2">>

\* the text of the selection, trimmed
SelectionText(ed) == Trim(TextBetween(ed.content, ed.from, ed.to, "\n"))

\* what the sentence says of the three fields every pack has
PackFields ==
  /\ {"selectedText", "localContext", "outline"} \subseteq DOMAIN contextPack
  /\ editor = NoEditor =>
       /\ contextPack.selectedText = <<>>
       /\ contextPack.localContext = <<>>
       /\ contextPack.outline = <<>>
  /\ editor # NoEditor =>
       /\ editor.from = editor.to => contextPack.selectedText = <<>>
       /\ "state" \in editor.raises =>
            contextPack.selectedText = <<>> /\ contextPack.localContext = <<>>
       /\ "getJSON" \in editor.raises => contextPack.outline = <<>>
       /\ editor.raises = {} /\ editor.from # editor.to =>
            contextPack.selectedText = SelectionText(editor)
       /\ "fullDocText" \in DOMAIN contextPack /\ "getText" \in editor.raises =>
            contextPack.fullDocText = <<>>

\* C29 as stated: buildContextPack returns a pack for every editor; without
\* editor, with a collapsed selection or when an extractor catches an
\* exception the field is the empty string, selectedText is the trimmed
\* text of the selection, and the pack has fullDocText exactly when
\* includeFullDoc was asked for.
C29_FullDocWheneverRequested ==
  contextPack # NoPack =>
    /\ PackFields
    /\ "fullDocText" \in DOMAIN contextPack <=> IncludeFullDoc(opts)

\* C29: the same, the pack having fullDocText exactly when includeFullDoc
\* was asked for, an editor was given and buildContextPack itself caught
\* no exception (editor.getJSON did not raise).
C29_ContextPack ==
  contextPack # NoPack =>
    /\ PackFields
    /\ "fullDocText" \in DOMAIN contextPack
         <=> /\ IncludeFullDoc(opts)
             /\ editor # NoEditor
             /\ "getJSON" \notin editor.raises

\* the full text was asked for and editor.state raises: the two fields
\* read from the state are empty, the outline and the full text are there
C29_Witness ==
  /\ contextPack # NoPack
  /\ editor # NoEditor
  /\ editor.raises = {"state"}
  /\ IncludeFullDoc(opts)
  /\ contextPack.selectedText = <<>>
  /\ contextPack.localContext = <<>>
  /\ contextPack.outline = <<"#", " ", "1">>
  /\ contextPack.fullDocText = <<"1", "\n\n", " ", "2">>

\* the records of the documents other than docId, in stored order
Others(ths, docId) == SelectSeq(ths, LAMBDA t : t.documentId # docId)

\* the thread record an old comment is rewritten as
IsMigrationOf(new, old) ==
  /\ ~ IsThread(old)
  /\ IsThread(new)
  /\ new.id = old.id
  /\ new.documentId = old.documentId
  /\ new.createdAt = old.createdAt
  /\ ~ new.resolved
  /\ IF old.content = "" THEN new.messages = <<>>
     ELSE /\ Len(new.messages) = 1
          /\ new.messages[1].content = old.content
          /\ new.messages[1].author = "user"

\* a call of the brain store has left the record of every project but
\* projectId as it was
OtherBrainsKept(projectId) ==
  \A p \in Docs \ {projectId} :
    /\ p \in DOMAIN brains' <=> p \in DOMAIN brains
    /\ p \in DOMAIN brains => brains'[p] = brains[p]

\* C30 as stated: a call of the comment store leaves the brains as they
\* were and a call of the brain store the threads; within its collection a
\* call leaves the records of every document or project but the one it
\* names equal to what they were.
C30_OtherRecordsEqual ==
  [][acts' # acts =>
       /\ call'.module = "commentStore" =>
            /\ brains' = brains
            /\ Others(threads', call'.target) = Others(threads, call'.target)
       /\ call'.module = "brainStore" =>
            /\ threads' = threads
            /\ OtherBrainsKept(call'.target)]_vars

\* C30: a call of the comment store leaves the brains as they were and a
\* call of the brain store the threads; within its collection a call leaves
\* the records of every document or project but the one it names equal to
\* what they were, except that a record still in the old comment format is
\* written back as the thread it migrates to.
C30_IndependentCollections ==
  [][acts' # acts =>
       /\ call'.module = "commentStore" =>
            /\ brains' = brains
            /\ LET new == Others(threads', call'.target)
                   old == Others(threads, call'.target)
               IN /\ Len(new) = Len(old)
                  /\ \A i \in DOMAIN old :
                       new[i] = old[i] \/ IsMigrationOf(new[i], old[i])
       /\ call'.module = "brainStore" =>
            /\ threads' = threads
            /\ OtherBrainsKept(call'.target)]_vars

\* a reply to the thread of document A has been written: the old comment
\* of document B is stored as a thread, the brains are as they were
C30_Witness ==
  /\ call.module = "commentStore" /\ call.target = "A"
  /\ Len(threads) = 2
  /\ threads[1].documentId = "A" /\ IsThread(threads[1])
  /\ Len(threads[1].messages) = 2
  /\ threads[2].id = EarlierId(4) /\ IsThread(threads[2])
  /\ brains = ("A" :> FilledBrain("g1")) @@ ("B" :> FilledBrain("g2"))

\* the non-AI threads of a list
NonAI(ths) == SelectSeq(ths, LAMBDA t : ~ t.isAIThread)

\* a step of deleteMessage on a stored thread whose only messages carry
\* messageId
RemovesLastMessage(threadId, messageId) ==
  /\ Found(threadId)
  /\ CallDeleteMessage(threadId, messageId)
  /\ \A m \in ThreadIds(threads[FindIndex(threads, threadId)].messages) : m = messageId

MessagePushCalled(threadId) ==
  \/ \E c \in Contents : CallAddReplyToThread(threadId, c)
  \/ \E c \in Contents, st \in Statuses : CallAddAIMessageToThread(threadId, c, st)
MessageUpdateCalled(threadId) ==
  \E m \in MessageArgs(threadId), c \in Contents :
    \/ CallUpdateMessage(threadId, m, c)
    \/ \E st \in Statuses : CallUpdateAIMessage(threadId, m, c, st)
FlagCalled(threadId) ==
  \/ CallToggleResolveThread(threadId)
  \/ \E m \in MessageArgs(threadId) : CallDeleteMessage(threadId, m)

\* C40: addReplyToThread, addAIMessageToThread, updateAIMessage,
\* updateMessage, toggleResolveThread and deleteMessage called with the id
\* of a thread that is not in the store write nothing and leave both
\* collections as they were; the first two return null, the next two no
\* value and the last two false.
C40_NoResurrection ==
  [][\A t \in LaterArgs : ~ Found(t) =>
       /\ MessagePushCalled(t) =>
            threads' = threads /\ brains' = brains /\ call'.returned = Null
       /\ MessageUpdateCalled(t) =>
            threads' = threads /\ brains' = brains /\ call'.returned = Undefined
       /\ FlagCalled(t) =>
            threads' = threads /\ brains' = brains /\ call'.returned = Boolean(FALSE)]_vars

\* after a call that wrote the store (the deletion of the thread of document
\* A is one), a push to a thread that is not in the store has returned null:
\* the store holds the old comment of document B as the first call wrote
\* it, and nothing else
C40_Witness ==
  /\ acts = MaxCalls
  /\ call.module = "commentStore" /\ call.target = "none" /\ call.returned = Null
  /\ Len(threads) = 1
  /\ threads[1].id = EarlierId(4) /\ IsThread(threads[1])
  /\ Len(threads[1].messages) = 1

\* C35: when handleAddThread has run on a non-empty selection, the thread
\* it created is in the store and the content carries a mark with its id
\* on the selected range: the mark cleanup that the application of the
\* mark triggers finds the thread stored and strips nothing.
C35_ThreadBeforeMark ==
  [][\A r \in Ranges :
       (r[1] < r[2] /\ HandleAddThread(r[1], r[2])) =>
         /\ nextId \in ThreadIds(GetDocumentComments(threads', documentId))
         /\ \A i \in r[1]..(r[2] - 1) : doc'[i].mark = nextId]_vars

\* the initialized editor has handled the application of the mark of a
\* thread handleAddThread has just stored, and stripped nothing
C35_Witness ==
  /\ isInitialized
  /\ sinceChange = 0
  /\ ~ change.stripped
  /\ pendingComment = <<>>
  /\ RefreshDelay \in refreshTimers
  /\ \E i \in DOMAIN threads :
       /\ ~ threads[i].isAIThread
       /\ threads[i].id = nextId - 1
       /\ threads[i].id \in ActiveCommentIds(doc)
       /\ threads[i].id \notin ActiveCommentIds(storedContent)

\* the runs of cleanupOrphanedMarks that handleUpdate causes on content d:
\* its own, and those of the update events its dispatches raise
RECURSIVE CleanupPasses(_, _)
CleanupPasses(d, ths) ==
  IF Dispatches(d, ths, documentId)
    THEN 1 + CleanupPasses(StripOrphanedMarks(d, ThreadIds(GetDocumentComments(ths, documentId))),
                           ths)
    ELSE 1

\* the content an insertion or a deletion of the user hands to handleUpdate
Edited ==
  {InsertAt(doc, pos, Cell("a", m)) :
     pos \in 1..(Len(doc) + 1), m \in {NoMark, EmptyId, ForeignId} \cup 1..(nextId - 1)}
  \cup {RemoveAt(doc, pos) : pos \in 1..Len(doc)}

\* C37: a content change the initialized editor handles causes at most two
\* runs of the mark cleanup, the second of which finds nothing to strip,
\* and leaves exactly one pending save timer and one pending thread-cleanup
\* timer, both set for the content the cleanup left.
C37_CleanupTerminates ==
  /\ [](\A d \in Edited :
          /\ CleanupPasses(d, threads) <= 2
          /\ LET e == HandleUpdate([Ed EXCEPT !.doc = d], threads)
             IN isInitialized =>
                  /\ ~ Dispatches(e.doc, threads, documentId)
                  /\ Cardinality(e.saveTimers) = 1
                  /\ Cardinality(e.cleanupTimers) = 1)
  /\ [][(isInitialized /\ doc' # doc) =>
          /\ ~ Dispatches(doc', threads', documentId)
          /\ saveTimers' = {Timer(saveTimeoutRef', SaveDelay,
                                  [content |-> doc', docId |-> documentId])}
          /\ cleanupTimers' = {Timer(cleanupTimeoutRef', CleanupDelay,
                                     [docId |-> documentId])}]_vars

\* the editor has handled a change whose first cleanup pass stripped a mark
\* while a save timer of an earlier change was pending: one save timer and
\* one cleanup timer are pending, set anew
C37_Witness ==
  /\ isInitialized
  /\ sinceChange = 0
  /\ change.stripped
  /\ change.burst = 2
  /\ saveTimers = {Timer(saveTimeoutRef, SaveDelay, [content |-> doc, docId |-> documentId])}
  /\ cleanupTimers = {Timer(cleanupTimeoutRef, CleanupDelay, [docId |-> documentId])}

\* the step is a run of the goal-save timer
GoalSaved ==
  /\ acts' = acts
  /\ Due(goalTimers) # {}
  /\ goalTimers' # goalTimers

\* C34: the debounced goal save changes only the goal of the stored brain:
\* the constraints, the glossary and the decisions the store holds when the
\* timer runs, an entry added or removed while the save was pending
\* included, are the same afterwards.
C34_GoalSaveChangesGoalOnly ==
  [][GoalSaved =>
       /\ storedBrain'.constraints = storedBrain.constraints
       /\ storedBrain'.glossary = storedBrain.glossary
       /\ storedBrain'.decisions = storedBrain.decisions]_vars

\* the content of the thread's own document: the editor's for the open
\* document, the stored record's for another
OwnContent(thread) ==
  IF thread.documentId = documentId THEN doc ELSE documents[thread.documentId]

\* C32: a run of a thread-cleanup timer deletes no thread whose mark is
\* present in the content of the thread's own document, the timer of a
\* document the editor has switched away from included.
C32_OwnDocumentOnly ==
  [][CleanupRan =>
       \A i \in DOMAIN threads :
         threads[i].id \in ActiveCommentIds(OwnContent(threads[i]))
           => threads[i].id \in ThreadIds(threads')]_vars

\* C38: after a load (the mount, or a change of the document id) and until
\* the initialized editor has seen a content change, no step other than an
\* operation of the user cleans marks, schedules a persist or a thread
\* cleanup, or changes the stored content or the threads of the document.
C38_LoadIsSilent ==
  [][(~ change.any /\ acts' = acts) =>
       /\ doc' = doc
       /\ \A t \in saveTimers' : t.remaining = SaveDelay => t \in saveTimers
       /\ \A t \in cleanupTimers' : t.remaining = CleanupDelay => t \in cleanupTimers
       /\ documents'[documentId] = documents[documentId]
       /\ GetDocumentComments(threads', documentId)
            = GetDocumentComments(threads, documentId)]_vars

\* the step is the user's deletion of thread id in the panel: the whole
\* thread, or its last message
ThreadDeletedByUser(id) ==
  \/ HandleDeleteThread(id)
  \/ /\ \E m \in ListedMessages : HandleDeleteMessage(id, m)
     /\ id \notin ThreadIds(threads')

\* C36: after the user has deleted a thread in the panel (handleDeleteThread,
\* or handleDeleteMessage on its last message) no character of the content
\* carries a mark with the thread's id, also when disjoint ranges carried it.
C36_NoMarkAfterDelete ==
  [][\A id \in 1..MaxThreads :
       ThreadDeletedByUser(id) => id \notin ActiveCommentIds(doc')]_vars

\* the first operation on a content whose first and third character carried
\* thread 1 and whose second did not has deleted the thread, and the mark
\* cleanup of the transaction has removed marks beyond the range the
\* deletion unset
C36_Witness ==
  /\ acts = 2
  /\ isCommentPanelOpen
  /\ Len(doc) = MaxTreeLen
  /\ change.stripped
  /\ doc[2].mark = 2
  /\ 1 \notin ThreadIds(threads)
  /\ 1 \notin ActiveCommentIds(doc)

\* the view state of this surface is what a full reload would give it
ViewInSync ==
  /\ panelThreads = GetDocumentComments(threads, documentId)
  /\ commentData = GetAllCommentData(doc)
  /\ commentCount = StoredCount

\* nothing this surface runs by itself is left to run: the refresh of the
\* panel's interval, the only callback it has pending, would change nothing
Settled ==
  /\ commentData = GetAllCommentData(doc)
  /\ OrphanedThreads(doc, threads, documentId) = {}

\* C31: whatever another surface has written to the thread collection, once
\* this surface has run what the change makes it run, its thread list, its
\* positions and its comment count equal what the store holds.
C31_ViewFollowsStore == Settled => ViewInSync

\* C33: a run of this surface's thread cleanup deletes no non-AI thread
\* whose mark the content of the other surface carries.
C33_PeerThreadsSurvive ==
  [][CleanupRan =>
       \A i \in DOMAIN threads :
         (~ threads[i].isAIThread /\ threads[i].id \in ActiveCommentIds(peerDoc))
           => threads[i].id \in ThreadIds(threads')]_vars

====
